--------------------------- MODULE MCPortfolioPolicy ---------------------------
(* Family A has a +1x product, A1, and a +2x one, A2; family B has a +2x one   *)
(* only.                                                                       *)
EXTENDS PortfolioPolicy, TLC

ETFs == {"A1", "A2", "B2"}
FamilyOf == "A1" :> "A" @@ "A2" :> "A" @@ "B2" :> "B"
ThemeName == "A1" :> "chips" @@ "A2" :> "chips" @@ "B2" :> "chips"
LeverageOf == "A1" :> 1 @@ "A2" :> 2 @@ "B2" :> 2
Listing == "A1" :> 1 @@ "A2" :> 2 @@ "B2" :> 3

Unlisted == [kind |-> "none"]
AdvOf(c) == [kind |-> "caps", caps |-> c]
Deep == AdvOf([t \in ETFs |-> 1400])
Thin == AdvOf("A1" :> 600 @@ "A2" :> 200 @@ "B2" :> 1400)
Unknown == AdvOf("B2" :> 1400)

Gate(r, l) == [regime |-> r, leverage |-> l]
Session(s, themes, gate, adv) ==
  [scores |-> s, themes |-> themes, gate |-> gate, adv |-> adv]

Normal == <<Gate("RISK_ON", "allowed"), Deep>>
Gated == <<Gate("RISK_ON", "unknown"), Deep>>
Narrow == <<Gate("RISK_ON", "allowed"), Thin>>
Neutral == <<Gate("NEUTRAL", "allowed"), Unknown>>

(* A leads well; A has fallen and B leads; a failed score; a close where A2   *)
(* stands for its family and ties with B, on a thin market; one whose themes  *)
(* are given; and one without adv.                                            *)
MCSessions ==
  {Session("A1" :> 5 @@ "B2" :> 2, Empty, c[1], c[2]) : c \in {Normal, Gated, Narrow, Neutral}}
  \cup {Session("A1" :> 3 @@ "B2" :> 4, Empty, c[1], c[2]) : c \in {Normal, Neutral}}
  \cup {Session(Empty, Empty, Gate("RISK_ON", "allowed"), Deep),
        Session("A2" :> 5 @@ "A1" :> 4 @@ "B2" :> 5, Empty,
                Gate("RISK_ON", "allowed"), Thin),
        Session("A1" :> 5 @@ "B2" :> 4, "A1" :> "LEADING" @@ "B2" :> "BREAKDOWN",
                Gate("RISK_ON", "allowed"), Deep),
        Session("A1" :> 5 @@ "B2" :> 2, Empty, Gate("RISK_ON", "allowed"), Unlisted)}

OverlaySets == {{}, {"lottery"}, {"lottery", "convexity"}}

=============================================================================
