------------------------------ MODULE CashLedger ------------------------------
(***************************************************************************)
(* The cash ledger of a backtest: src/execution/cash_accounting.py and     *)
(* ledger_transition.py, driven session by session as                      *)
(* BacktestEngine.run and simulate_window_from_cache drive them.           *)
(*                                                                         *)
(* A decision taken at the close of one session is executed at the open of *)
(* the next: the positions in excess are sold first, ticker by ticker, and *)
(* then the targets are bought, each order cut to whole lots and to what   *)
(* the volume budget, the cash reserve, the weight limit and the gross     *)
(* limit leave. Every iteration of the two loops is a step here.           *)
(*                                                                         *)
(* A lot is the least quantity an order can tell apart: a share where the  *)
(* caller passes lot_size=1 (tournament/frontier.py), the resolution of a  *)
(* float where it passes none (the engine and the simulators). Prices are  *)
(* won per lot. Money is counted in won/FeeDen, so that the charge         *)
(* FeeNum/FeeDen of a trade is exact; weights and limits in 1/WDen.        *)
(***************************************************************************)
EXTENDS Integers

CONSTANTS
  N,             \* the tickers are 1..N, in the order sorted() visits them
  Mult,          \* leverage multiple of each ticker, in absolute value
  Capital,       \* starting cash, in won
  WDen,          \* denominator of weights and limits
  WLim,          \* max_single_weight
  GLim,          \* max_gross_exposure
  CLim,          \* min_cash
  FeeNum, FeeDen,\* CostModel.charge as a fraction of the notional
  Carries,       \* the caller goes through transition_portfolio_state, which
                 \* carries a session without prices; the frontier study does not
  Quotes,        \* what a session may quote for one ticker: [open, close]
  Targets,       \* weights a strategy may ask for
  Budgets,       \* volume budgets of a session: ADV times max_order_to_adv
  MaxSession     \* bound on the sessions

Tickers == 1 .. N

ASSUME SizeAssumption  == N \in Nat /\ Capital \in Nat /\ MaxSession \in Nat /\ Carries \in BOOLEAN
ASSUME MultAssumption  == Mult \in [Tickers -> Nat \ {0}]
ASSUME LimitAssumption == /\ WDen \in Nat \ {0} /\ WLim \in 1 .. WDen
                          /\ GLim \in Nat \ {0} /\ CLim \in 0 .. WDen - 1
\* A charge above the notional is a configuration error (bps in the cost grid).
ASSUME FeeAssumption   == FeeDen \in Nat \ {0} /\ FeeNum \in 0 .. FeeDen
ASSUME InputAssumption == /\ Quotes \subseteq [open : Nat, close : Nat]
                          /\ Targets \subseteq [Tickers -> Nat]
                          /\ Budgets \subseteq [Tickers -> Nat]

VARIABLES
  session,    \* sessions executed so far
  phase,      \* "closed" | "sell" | "buy" | "decide"
  prev,       \* close_map of the previous session; 0 where a price is not fillable
  quote,      \* today's open and close of each ticker, 0 likewise
  intent,     \* pending_intent: what the last decision asked for
  cash,       \* PortfolioLedgerState.cash
  shares,     \* PortfolioLedgerState.shares; 0 for a ticker not held
  todo,       \* tickers the running loop has yet to visit
  equity,     \* equity at the open, before any order
  equityCur,  \* equity_cur of the buy loop
  fees,       \* total_cost of the session
  budget, traded,          \* volume budget and notional already traded, in won
  sold, bought, unfilled,  \* tickers sold, bought, and left with an open order
  nav,        \* equity_close of the last session
  navBefore,  \* equity_close of the session before
  base        \* the equity that session_return is measured from

orders == <<todo, equity, equityCur, fees, budget, traded, sold, bought, unfilled>>
report == <<nav, navBefore, base>>
vars   == <<session, phase, prev, quote, intent, cash, shares, orders, report>>

-----------------------------------------------------------------------------
(* Amounts *)

\* Written as a recursive function so that theorems can be proved about it.
Sum(f) == LET s[i \in 0 .. N] == IF i = 0 THEN 0 ELSE s[i - 1] + f[i] IN s[N]

Paid(n, price) == n * price * FeeDen
Cost(n, price) == n * price * FeeNum
Held           == {t \in Tickers : shares[t] > 0}

\* The first fillable price of several, as marks, close_marks and
\* carry_forward_marks look them up; 0 when there is none.
First(a, b) == IF a > 0 THEN a ELSE b

Mark(t)  == First(quote[t].open, prev[t])
Worth(m) == Sum([t \in Tickers |-> Paid(shares[t], m[t])])
Gross    == Sum([t \in Tickers |-> Paid(shares[t], Mark(t)) * Mult[t]])
AtOpen   == Worth([t \in Tickers |-> Mark(t)])

Zero      == [t \in Tickers |-> 0]
Hold      == [kind |-> "hold", weights |-> Zero]
Liquidate == [kind |-> "cash", weights |-> Zero]
Target(w) == [kind |-> "target", weights |-> w]
Weight(t) == intent.weights[t]
Least(S)  == CHOOSE t \in S : \A u \in S : t <= u

\* is_priceless_session: something is held and none of it has an open.
IsPriceless(q) == Held # {} /\ \A t \in Held : q[t].open = 0
IsCarried(q)   == Carries /\ IsPriceless(q)

-----------------------------------------------------------------------------
(* Order sizes. Each cap is the largest number of lots under one limit. *)

Smaller(a, b) == IF a <= b THEN a ELSE b

BadDesired(t) == (Weight(t) * equity) \div (WDen * FeeDen * quote[t].open) - 1
\* A weight cut down to whole lots; the part above it is sold.
Desired(t) == (Weight(t) * equity) \div (WDen * FeeDen * quote[t].open)

AdvLots(t) == (budget[t] - traded[t]) \div quote[t].open

BadSellLots(t) == shares[t] - Desired(t)
SellLots(t)    == Smaller(shares[t], Smaller(shares[t] - Desired(t), AdvLots(t)))

\* w_eff
Effective(t) == Smaller(WLim, Weight(t))

SingleLots(t) ==
  (Effective(t) * equityCur - WDen * Paid(shares[t], quote[t].open))
    \div (quote[t].open * (WDen * FeeDen + Effective(t) * FeeNum))

BadCashLots(t) == (WDen * cash - CLim * equityCur) \div (quote[t].open * WDen * FeeDen)
CashLots(t) ==
  (WDen * cash - CLim * equityCur)
    \div (quote[t].open * (WDen * FeeDen + (WDen - CLim) * FeeNum))

GrossLots(t) ==
  (GLim * equityCur - WDen * Gross)
    \div (quote[t].open * (WDen * FeeDen * Mult[t] + GLim * FeeNum))

BadBuyLots(t) == Smaller(SingleLots(t), Smaller(GrossLots(t), AdvLots(t)))
BuyLots(t) ==
  Smaller(Smaller(SingleLots(t), CashLots(t)), Smaller(GrossLots(t), AdvLots(t)))

-----------------------------------------------------------------------------
(* The open of a session *)

NoQuotes == [t \in Tickers |-> [open |-> 0, close |-> 0]]

Init ==
  /\ session = 0 /\ phase = "closed"
  /\ prev \in [Tickers -> {q.close : q \in Quotes}]
  /\ quote = NoQuotes
  \* bootstrap_prestart_intent: the decision of the session before the first
  /\ intent \in {Hold, Liquidate} \union {Target(w) : w \in Targets}
  /\ cash = Capital * FeeDen /\ shares = Zero
  /\ todo = {} /\ equity = 0 /\ equityCur = 0 /\ fees = 0
  /\ budget = Zero /\ traded = Zero
  /\ sold = {} /\ bought = {} /\ unfilled = {}
  /\ nav = cash /\ navBefore = cash /\ base = cash

Opens(q) ==
  /\ phase = "closed" /\ session < MaxSession
  /\ session' = session + 1
  /\ quote' = q

Reports(value, from) == nav' = value /\ navBefore' = nav /\ base' = from

\* equity_prev: the holdings whose close of the session before is known
EquityPrev == cash + Worth(prev)

\* Nothing held has an open: the intent is dropped, the holdings are carried at
\* their last marks if each has one, and the return is reported as nothing.
CarryPriceless(q) ==
  /\ Opens(q) /\ IsCarried(q)
  /\ LET marks == [t \in Tickers |-> First(q[t].close, prev[t])]
         value == IF \A t \in Held : marks[t] > 0 THEN cash + Worth(marks) ELSE EquityPrev
     IN Reports(value, value)
  /\ phase' = "decide"
  /\ UNCHANGED <<prev, intent, cash, shares, orders>>

\* HOLD: no order. A holding with neither an open nor a previous close makes the
\* code report the cash alone.
CarryHold(q) ==
  /\ Opens(q) /\ ~ IsCarried(q) /\ intent.kind = "hold"
  /\ LET marks  == [t \in Tickers |-> First(q[t].open, prev[t])]
         value  == cash + Worth([t \in Tickers |-> First(q[t].close, marks[t])])
     IN IF \E t \in Held : marks[t] = 0
          THEN Reports(cash, cash)
          ELSE Reports(value, IF EquityPrev = 0 THEN value ELSE EquityPrev)
  /\ phase' = "decide"
  /\ UNCHANGED <<prev, intent, cash, shares, orders>>

StartOrders(q, b) ==
  /\ Opens(q) /\ ~ IsCarried(q) /\ intent.kind # "hold"
  /\ phase' = "sell" /\ todo' = Held
  /\ equity' = cash + Worth([t \in Tickers |-> First(q[t].open, prev[t])])
  /\ equityCur' = 0 /\ fees' = 0
  /\ budget' = b /\ traded' = Zero
  /\ sold' = {} /\ bought' = {} /\ unfilled' = {}
  /\ base' = EquityPrev
  /\ UNCHANGED <<prev, intent, cash, shares, nav, navBefore>>

-----------------------------------------------------------------------------
(* The loops *)

\* The loops run over sorted(): the least ticker left is the next.
Visit(t) == /\ todo # {} /\ t = Least(todo)
            /\ todo' = todo \ {t}

Pass(t, isUnfilled) ==
  /\ unfilled' = IF isUnfilled THEN unfilled \union {t} ELSE unfilled
  /\ UNCHANGED <<cash, shares, equityCur, fees, traded, sold, bought>>

\* A holding without an open stays; the order is open unless the weight is right.
SellUnquoted(t) ==
  /\ phase = "sell" /\ Visit(t) /\ quote[t].open = 0
  /\ Pass(t, \/ intent.kind = "cash" \/ equity = 0
             \/ Weight(t) * equity # WDen * Paid(shares[t], Mark(t)))
  /\ UNCHANGED <<session, phase, prev, quote, intent, equity, budget, report>>

SellNothing(t) ==
  /\ phase = "sell" /\ Visit(t) /\ quote[t].open > 0 /\ SellLots(t) <= 0
  /\ Pass(t, shares[t] > Desired(t))
  /\ UNCHANGED <<session, phase, prev, quote, intent, equity, budget, report>>

Sell(t) ==
  /\ phase = "sell" /\ Visit(t) /\ quote[t].open > 0 /\ SellLots(t) > 0
  /\ LET n == SellLots(t)  p == quote[t].open IN
       /\ cash' = cash + Paid(n, p) - Cost(n, p)
       /\ shares' = [shares EXCEPT ![t] = @ - n]
       /\ traded' = [traded EXCEPT ![t] = @ + n * p]
       /\ fees' = fees + Cost(n, p)
  /\ sold' = sold \union {t}
  /\ UNCHANGED <<session, phase, prev, quote, intent, equity, equityCur, budget,
                 bought, unfilled, report>>

StartBuys ==
  /\ phase = "sell" /\ todo = {}
  /\ phase' = "buy" /\ todo' = {t \in Tickers : Weight(t) > 0}
  /\ equityCur' = cash + AtOpen
  /\ UNCHANGED <<session, prev, quote, intent, cash, shares, equity, fees, budget,
                 traded, sold, bought, unfilled, report>>

\* No open, or the budget is used up while the target is not reached.
Blocked(t) ==
  \/ quote[t].open = 0
  \/ /\ budget[t] <= traded[t]
     /\ Weight(t) * equityCur > WDen * Paid(shares[t], quote[t].open)

BuyBlocked(t) ==
  /\ phase = "buy" /\ Visit(t) /\ Blocked(t)
  /\ Pass(t, TRUE)
  /\ UNCHANGED <<session, phase, prev, quote, intent, equity, budget, report>>

BuyNothing(t) ==
  /\ phase = "buy" /\ Visit(t) /\ ~ Blocked(t) /\ BuyLots(t) <= 0
  /\ Pass(t, FALSE)
  /\ UNCHANGED <<session, phase, prev, quote, intent, equity, budget, report>>

BadBuy(t) ==
  /\ phase = "buy" /\ Visit(t) /\ ~ Blocked(t) /\ BuyLots(t) > 0
  /\ LET n == BuyLots(t)  p == quote[t].open IN
       /\ cash' = cash - Paid(n, p) - Cost(n, p)
       /\ shares' = [shares EXCEPT ![t] = @ + n]
       /\ traded' = [traded EXCEPT ![t] = @ + n * p]
       /\ fees' = fees + Cost(n, p)
  /\ bought' = bought \union {t}
  /\ UNCHANGED <<session, phase, prev, quote, intent, equity, equityCur, budget,
                 sold, unfilled, report>>

Buy(t) ==
  /\ phase = "buy" /\ Visit(t) /\ ~ Blocked(t) /\ BuyLots(t) > 0
  /\ LET n == BuyLots(t)  p == quote[t].open IN
       /\ cash' = cash - Paid(n, p) - Cost(n, p)
       /\ shares' = [shares EXCEPT ![t] = @ + n]
       /\ traded' = [traded EXCEPT ![t] = @ + n * p]
       /\ fees' = fees + Cost(n, p)
       /\ equityCur' = equityCur - Cost(n, p)
  /\ bought' = bought \union {t}
  /\ UNCHANGED <<session, phase, prev, quote, intent, equity, budget, sold, unfilled, report>>

-----------------------------------------------------------------------------
(* The close of a session and the decision for the next *)

\* After orders the close marks fall back on the previous close only.
CloseSession ==
  /\ phase = "buy" /\ todo = {}
  /\ LET value == cash + Worth([t \in Tickers |-> First(quote[t].close, prev[t])])
     IN Reports(value, IF base = 0 THEN value ELSE base)
  /\ phase' = "decide"
  /\ UNCHANGED <<session, prev, quote, intent, cash, shares, orders>>

\* A failed or empty score becomes HOLD, the crash rule CASH; what a strategy
\* asks for is a choice. The pending intent is replaced whether executed or not.
Decide ==
  /\ phase = "decide" /\ phase' = "closed"
  /\ prev' = [t \in Tickers |-> quote[t].close]
  /\ intent' \in {Hold, Liquidate} \union {Target(w) : w \in Targets}
  /\ quote' = NoQuotes
  /\ todo' = {} /\ equity' = 0 /\ equityCur' = 0 /\ fees' = 0
  /\ budget' = Zero /\ traded' = Zero
  /\ sold' = {} /\ bought' = {} /\ unfilled' = {}
  /\ UNCHANGED <<session, cash, shares, report>>

Execute == \E q \in [Tickers -> Quotes] :
  \/ CarryPriceless(q) \/ CarryHold(q)
  \/ \E b \in Budgets : StartOrders(q, b)

Order == \E t \in Tickers :
  \/ SellUnquoted(t) \/ SellNothing(t) \/ Sell(t)
  \/ BuyBlocked(t) \/ BuyNothing(t) \/ Buy(t)

Next == Execute \/ Order \/ StartBuys \/ CloseSession \/ Decide

Spec == Init /\ [][Next]_vars

-----------------------------------------------------------------------------
(* Properties *)

\* Types; in particular the cash and every position stay nonnegative between
\* any two orders, so the next session never refuses the ledger ("prior cash
\* must be finite and nonnegative").
TypeOK ==
  /\ session \in 0 .. MaxSession /\ phase \in {"closed", "sell", "buy", "decide"}
  /\ prev \in [Tickers -> Nat] /\ quote \in [Tickers -> [open : Nat, close : Nat]]
  /\ intent \in [kind : {"hold", "cash", "target"}, weights : [Tickers -> Nat]]
  /\ cash \in Nat /\ shares \in [Tickers -> Nat]
  /\ todo \subseteq Tickers /\ {sold, bought, unfilled} \subseteq SUBSET Tickers
  /\ {equity, equityCur, fees} \subseteq Int
  /\ {budget, traded} \subseteq [Tickers -> Nat]
  /\ {nav, navBefore, base} \subseteq Nat

\* Conservation: between any two orders the cash, the positions at their marks
\* and the fees paid add up to the equity at the open, and equity_cur, which the
\* buy loop only decrements, is the true equity.
Reconciles ==
  /\ phase \in {"sell", "buy"} => cash + AtOpen + fees = equity
  /\ phase = "buy" => equityCur = cash + AtOpen

\* No ticker trades more in a session, sales and purchases together, than its
\* volume budget.
WithinVolume == \A t \in Tickers : traded[t] <= budget[t]

\* No session sells lots of a ticker and buys the same ticker back: the rounding
\* to lots and the fees of the sales never make the two loops undo each other.
NoRoundTrip == sold \intersect bought = {}

\* A purchase never leaves its ticker over the weight it may have, the portfolio
\* over the gross limit or the cash under the reserve, after its own fee.
PurchasesKeepLimits ==
  [][\A t \in Tickers : shares'[t] > shares[t] =>
       /\ WDen * Paid(shares'[t], quote[t].open) <= Effective(t) * equityCur'
       /\ WDen * Gross' <= GLim * equityCur'
       /\ WDen * cash' >= CLim * equityCur']_vars

=============================================================================
