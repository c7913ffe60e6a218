---------------------------- MODULE VehicleRouter ----------------------------
(* From the instrument a score chose to the one that is bought: the family's  *)
(* +1x or +2x product, by regime, permission, confidence and by what the      *)
(* market can absorb (portfolio/exposure.py, resolve_convexity_vehicle).      *)
(* Inverse products, which the capacity-aware route never takes, are left     *)
(* out, and so are synthetic ones, taken only where a family has no other.    *)
EXTENDS PolicySizing

Members(f) == {t \in Tickers : Family[t] = f}
WithMultiple(f, m) == {t \in Members(f) : Multiple[t] = m}

(* For mutation: an unknown permission is read as leave.                      *)
BadTargetMultiple(gate) == IF gate.regime \in RiskOn THEN 2 ELSE 1

(* target_multiple_for_regime.                                                *)
TargetMultiple(gate) ==
  IF gate.leverage = "allowed" /\ gate.regime \in RiskOn THEN 2 ELSE 1

PlusOne(f) == IF WithMultiple(f, 1) # {} THEN First(WithMultiple(f, 1))
              ELSE First(Members(f))

(* ExposureSelector.select, as pick_vehicle calls it for a scored instrument. *)
PickVehicle(src, gate, low) ==
  LET f    == Family[src]
      twox == WithMultiple(f, 2) \ Doubtful
  IN  IF ~low /\ src \notin Doubtful /\ TargetMultiple(gate) = 2 /\ twox # {}
      THEN First(twox) ELSE PlusOne(f)

(* A position the market cannot take back in one session.                     *)
CannotUnwind(h, adv, held) == h \notin DOMAIN adv \/ held[h] > adv[h]

(* The whole book fits: adv must take what is missing to a full position.     *)
Fillable(t, adv, held) == t \in DOMAIN adv /\ Unit - Weight(held, t) <= adv[t]

HeldInFamily(f, held) == {h \in DOMAIN held : Family[h] = f}

(* The +2x products of the family that regime, rules, confidence and capacity *)
(* leave open.                                                                *)
LeveragedRoutes(src, gate, low, adv, held) ==
  {v \in {First(S) : S \in {WithMultiple(Family[src], 2)} \ {{}}} :
     /\ TargetMultiple(gate) = 2
     /\ ~low /\ {src, v} \cap Doubtful = {}
     /\ Fillable(v, adv, held)}

(* The family's +1x product; the source stands in for a missing one.          *)
PlainOf(src) ==
  LET plain == WithMultiple(Family[src], 1)
  IN  IF plain # {} THEN First(plain) ELSE src

(* Otherwise +1x where the book fits into it or nothing of the family is      *)
(* held, and what is held where it does not.                                  *)
PlainTakes(src, adv, held) ==
  Fillable(PlainOf(src), adv, held) \/ HeldInFamily(Family[src], held) = {}

FallbackRoute(src, adv, held) ==
  IF PlainTakes(src, adv, held) THEN PlainOf(src) ELSE First(HeldInFamily(Family[src], held))

Stuck(src, adv, held) == {h \in HeldInFamily(Family[src], held) : CannotUnwind(h, adv, held)}

(* select_capacity_aware: a stuck holding of the family gets the weight.      *)
CapacityRoute(src, gate, low, adv, held) ==
  LET stuck == Stuck(src, adv, held)
      lever == LeveragedRoutes(src, gate, low, adv, held)
  IN  IF stuck # {} THEN First(stuck)
      ELSE IF lever # {} THEN First(lever)
      ELSE FallbackRoute(src, adv, held)

(* VehicleRoute.multiple: the +1x product counts once, and so does whatever   *)
(* stands in for it.                                                          *)
RouteMultiple(src, gate, low, adv, held) ==
  IF /\ Stuck(src, adv, held) = {} /\ LeveragedRoutes(src, gate, low, adv, held) = {}
     /\ PlainTakes(src, adv, held)
  THEN 1 ELSE Multiple[CapacityRoute(src, gate, low, adv, held)]

(* resolve_convexity_vehicle: regime and confidence of the scores play no part. *)
ConvexityVehicle(src, gate) ==
  LET f == Family[src]
  IN  CASE gate.leverage = "allowed" /\ src \notin Doubtful /\ WithMultiple(f, 2) # {}
             -> First(WithMultiple(f, 2))
        [] OTHER -> PlainOf(src)

(* The weights of the sources, summed on the vehicles they are routed to.     *)
OnVehicles(w, route) ==
  [v \in {route[t] : t \in DOMAIN w} |->
     SumFunctionOnSet(w, {t \in DOMAIN w : route[t] = v})]

(* At most one positive vehicle per family, the heavier one.                  *)
OnePerFamily(w) ==
  LET heavier(u, t) == w[u] > w[t] \/ (w[u] = w[t] /\ Order[u] < Order[t])
  IN  Restrict(w, {t \in DOMAIN w : w[t] = 0 \/
         \A u \in DOMAIN w \ {t} : Family[u] = Family[t] => ~heavier(u, t)})

(* INV-09-5: a vehicle whose weight is over its liquidity gives the weight to *)
(* the family's +1x product.                                                  *)
Demotion(w, adv) ==
  [t \in DOMAIN w |->
     IF t \in DOMAIN adv /\ w[t] > adv[t] THEN PlusOne(Family[t]) ELSE t]

(* The recorded multiples after it: a product that took another one's weight  *)
(* counts with its own.                                                       *)
Recounted(counted, to) ==
  [v \in {to[t] : t \in DOMAIN to} |->
     IF v \notin DOMAIN counted \/ \E t \in DOMAIN to \ {v} : to[t] = v THEN Multiple[v] ELSE counted[v]]

=============================================================================
