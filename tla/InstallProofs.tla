--------------------------- MODULE InstallProofs ---------------------------
(***************************************************************************)
(* Theorems about Install, for any number of calls at once.                *)
(*                                                                         *)
(* That no call uses a non-expiring token is not inductive: freshShop      *)
(* looks at the token when the call begins, and other calls and the clock  *)
(* go on while the call waits.  What carries it is that a call which holds *)
(* a renewed token or is about to use one holds a grant that is not of     *)
(* that kind (Paired), and that the kind of a grant somebody holds never   *)
(* becomes "legacy" again: Shopify mints into grants nobody holds.         *)
(***************************************************************************)
EXTENDS Install, TLAPS

(* The stages in which a call holds a token.                               *)
Holding == {"cycling", "refreshing", "renewed", "provisioned", "authorized", "calling"}
Sure == {"renewed", "calling"}

Held == \A o \in Op : ops[o].stage \in Holding => ops[o].grant \in Grant
Paired == \A o \in Op : ops[o].stage \in Sure => grants[ops[o].grant].kind # "legacy"

IInv == TypeOK /\ Held /\ Paired

-----------------------------------------------------------------------------
(* A step of the gateway keeps the invariant if the call it leaves, the    *)
(* row and the tokens are right, and no token changes its kind.            *)
LEMMA StepKeeps ==
  ASSUME IInv, NEW o \in Op, NEW op \in Call, NEW r \in Grant \cup {None},
         NEW gs \in [Grant -> Token \cup {None}],
         op.stage \in Holding => op.grant \in Grant,
         op.stage \in Sure => gs[op.grant].kind # "legacy",
         r # None => gs[r] # None,
         op.grant # None => gs[op.grant] # None,
         \A g \in Grant : gs[g] # None => Sound(gs[g]),
         \A g \in Grant : grants[g] # None => gs[g] # None /\ gs[g].kind = grants[g].kind,
         Step(o, op, r, gs)
  PROVE  IInv'
<1>1. /\ ops' = [ops EXCEPT ![o] = op] /\ row' = r
      /\ grants' = [g \in Grant |-> IF g \in HeldBy(r, ops') THEN gs[g] ELSE None]
      /\ installed' = installed /\ hooks' = hooks /\ uninstalls' = uninstalls
  BY DEF Step, platform
<1>2. ops \in [Op -> Call] /\ ops' \in [Op -> Call]
  BY <1>1 DEF IInv, TypeOK
<1>3. ops'[o] = op /\ \A p \in Op \ {o} : ops'[p] = ops[p]
  BY <1>1, <1>2
<1>4. None \notin Grant /\ None \notin Token
  BY InstallAssumption
<1>5. \A p \in Op : ops[p].grant \in Grant => grants[ops[p].grant] # None
  BY DEF IInv, TypeOK, HeldBy
<1>6. \A g \in Grant : g \in HeldBy(r, ops') => gs[g] # None
  <2> SUFFICES ASSUME NEW g \in Grant, g \in HeldBy(r, ops') PROVE gs[g] # None
    OBVIOUS
  <2>1. CASE g = r
    BY <2>1, <1>4
  <2>2. ASSUME NEW p \in Op, g = ops'[p].grant PROVE gs[g] # None
    <3>1. CASE p = o
      BY <3>1, <2>2, <1>3, <1>4
    <3>2. CASE p # o
      BY <3>2, <2>2, <1>3, <1>5
    <3> QED BY <3>1, <3>2
  <2> QED BY <2>1, <2>2 DEF HeldBy
<1>7. grants' \in [Grant -> Token \cup {None}]
  BY <1>1
<1>8. \A g \in Grant : grants'[g] # None <=> g \in HeldBy(row', ops')
  BY <1>1, <1>6
<1>9. \A g \in Grant : grants'[g] # None => grants'[g] = gs[g]
  BY <1>1
<1>10. TypeOK'
  <2>1. \A g \in Grant : grants'[g] # None => Sound(grants'[g])
    BY <1>9
  <2>2. (\A g \in Grant : grants[g] # None => Sound(grants[g]))'
    BY <2>1 DEF Sound
  <2> QED BY <1>1, <1>2, <1>7, <1>8, <2>2 DEF IInv, TypeOK
<1>11. Held'
  BY <1>3 DEF IInv, Held
<1>12. Paired'
  <2> SUFFICES ASSUME NEW p \in Op, ops'[p].stage \in Sure
               PROVE grants'[ops'[p].grant].kind # "legacy"
    BY DEF Paired
  <2> DEFINE g == ops'[p].grant
  <2>1. g \in Grant
    BY <1>11 DEF Held, Sure, Holding
  <2>2. grants'[g] = gs[g]
    BY <1>1, <2>1 DEF HeldBy
  <2>3. CASE p = o
    BY <2>2, <2>3, <1>3
  <2>4. CASE p # o
    BY <2>1, <2>2, <2>4, <1>3, <1>5 DEF IInv, Paired
  <2> QED BY <2>3, <2>4
<1> QED BY <1>10, <1>11, <1>12 DEF IInv

(* What freshShop leaves a call with.                                      *)
LEMMA FreshShopIsSound ==
  ASSUME TypeOK, NEW why \in Why, NEW r \in Grant \cup {None}, r # None => grants[r] # None
  PROVE  /\ freshShop(why, r) \in Call
         /\ freshShop(why, r).stage \in Holding => freshShop(why, r).grant \in Grant
         /\ freshShop(why, r).stage \in Sure => grants[freshShop(why, r).grant].kind # "legacy"
         /\ freshShop(why, r).grant \in {r, None}
<1>1. CASE freshShop(why, r) = Idle
  BY <1>1 DEF Idle, Call, Holding, Sure
<1>2. CASE r # None /\ grants[r].kind # "lapsed"
  <2>1. r \in Grant /\ grants[r] \in Token
    BY <1>2 DEF TypeOK
  <2>2. grants[r].kind \in {"legacy", "fresh", "stale"}
    BY <1>2, <2>1 DEF Token, Kind
  <2>3. freshShop(why, r) = [stage |-> needs[grants[r].kind], why |-> why, grant |-> r]
    BY <1>2 DEF freshShop
  <2>4. needs["legacy"] = "cycling" /\ needs["fresh"] = "calling" /\ needs["stale"] = "refreshing"
    BY DEF needs
  <2> QED BY <2>1, <2>2, <2>3, <2>4 DEF Call, Stage, Holding, Sure
<1> QED BY <1>1, <1>2 DEF freshShop

(* A call that Shopify hands a token keeps the invariant, if the token is  *)
(* not for a stage that needs a pair, or is one.                           *)
LEMMA MintKeeps ==
  ASSUME IInv, NEW o \in Op, ops[o] # Idle, NEW stage \in Stage, NEW t \in Token, Sound(t),
         stage \in Sure => t.kind # "legacy",
         NEW gs \in [Grant -> Token \cup {None}],
         \A g \in Grant : gs[g] # None => Sound(gs[g]),
         \A g \in Grant : grants[g] # None => gs[g] # None /\ gs[g].kind = grants[g].kind,
         Mint(o, stage, t, gs)
  PROVE  IInv'
<1>1. PICK g \in NewGrant :
        Step(o, [ops[o] EXCEPT !.stage = stage, !.grant = g], row, [gs EXCEPT ![g] = t])
  BY DEF Mint
<1>2. g \in Grant /\ g \notin HeldBy(row, ops)
  BY DEF NewGrant, Unused
<1>3. None \notin Grant /\ None \notin Token
  BY InstallAssumption
<1>4. ops[o] \in [stage : Stage, why : Why, grant : Grant \cup {None}]
  BY DEF IInv, TypeOK, Call
<1> DEFINE op == [ops[o] EXCEPT !.stage = stage, !.grant = g]
           gt == [gs EXCEPT ![g] = t]
<1>5. op \in Call /\ op.stage = stage /\ op.grant = g
  BY <1>2, <1>4 DEF Call
<1>6. gt \in [Grant -> Token \cup {None}] /\ gt[g] = t
      /\ \A h \in Grant \ {g} : gt[h] = gs[h]
  BY <1>2
<1>7. row \in Grant \cup {None} /\ (row # None => grants[row] # None)
  BY DEF IInv, TypeOK, HeldBy
<1>8. grants[g] = None
  BY <1>2 DEF IInv, TypeOK
<1>9. row # None => gt[row] # None
  BY <1>2, <1>6, <1>7 DEF HeldBy
<1>10. \A h \in Grant : gt[h] # None => Sound(gt[h])
  BY <1>6
<1>11. \A h \in Grant : grants[h] # None => gt[h] # None /\ gt[h].kind = grants[h].kind
  BY <1>6, <1>8
<1> HIDE DEF op, gt
<1>12. Step(o, op, row, gt)
  BY <1>1 DEF op, gt
<1> QED
  BY <1>2, <1>3, <1>5, <1>6, <1>7, <1>9, <1>10, <1>11, <1>12, StepKeeps

(* A step of the gateway that only looks at the tokens keeps it, given a   *)
(* call that is right: the tokens are as they were.                        *)
LEMMA LookKeeps ==
  ASSUME IInv, NEW o \in Op, NEW op \in Call, NEW r \in Grant \cup {None},
         r # None => grants[r] # None,
         op.stage \in Holding => op.grant \in Grant,
         op.stage \in Sure => grants[op.grant].kind # "legacy",
         op.grant # None => grants[op.grant] # None,
         Step(o, op, r, grants)
  PROVE  IInv'
<1>1. grants \in [Grant -> Token \cup {None}] /\ \A g \in Grant : grants[g] # None => Sound(grants[g])
  BY DEF IInv, TypeOK
<1> QED BY <1>1, StepKeeps

(* The row and every call hold grants that are known.                      *)
LEMMA HeldAreKnown ==
  ASSUME IInv
  PROVE  /\ row \in Grant \cup {None}
         /\ row # None => grants[row] # None
         /\ \A o \in Op : /\ ops[o] \in Call
                          /\ ops[o].grant \in Grant \cup {None}
                          /\ ops[o].grant # None => grants[ops[o].grant] # None
                          /\ ops[o].stage \in Holding => ops[o].grant \in Grant
<1>1. row \in Grant \cup {None} /\ (row # None => grants[row] # None)
  BY DEF IInv, TypeOK, HeldBy
<1>2. ASSUME NEW o \in Op
      PROVE  ops[o] \in Call /\ ops[o].grant \in Grant \cup {None}
  BY DEF IInv, TypeOK, Call, Idle
<1>3. ASSUME NEW o \in Op
      PROVE  /\ ops[o].grant # None => grants[ops[o].grant] # None
             /\ ops[o].stage \in Holding => ops[o].grant \in Grant
  BY <1>2 DEF IInv, TypeOK, HeldBy, Held
<1> QED BY <1>1, <1>2, <1>3

(* A call that ends keeps the invariant, and one that begins or goes on    *)
(* with freshShop.                                                         *)
LEMMA EndKeeps ==
  ASSUME IInv, NEW o \in Op, NEW r \in Grant \cup {None}, r # None => grants[r] # None,
         Step(o, Idle, r, grants)
  PROVE  IInv'
<1>1. Idle \in Call /\ Idle.stage \notin Holding /\ Idle.stage \notin Sure /\ Idle.grant = None
  BY DEF Idle, Call, Holding, Sure
<1> QED BY <1>1, LookKeeps

LEMMA FreshShopKeeps ==
  ASSUME IInv, NEW o \in Op, NEW why \in Why, NEW r \in Grant \cup {None},
         r # None => grants[r] # None, Step(o, freshShop(why, r), r, grants)
  PROVE  IInv'
<1>1. TypeOK
  BY DEF IInv
<1> QED BY <1>1, FreshShopIsSound, LookKeeps

-----------------------------------------------------------------------------
LEMMA InitHolds == Init => IInv
<1> SUFFICES ASSUME Init PROVE IInv
  OBVIOUS
<1>1. \A o \in Op : ops[o] = Idle /\ ops[o] \in Call
  BY DEF Init, Call
<1>2. HeldBy(row, ops) \subseteq {None}
  BY <1>1 DEF Init, HeldBy, Idle
<1>3. None \notin Grant /\ MaxUninstalls \in Nat
  BY InstallAssumption
<1>4. TypeOK
  <2>1. grants \in [Grant -> Token \cup {None}] /\ \A g \in Grant : grants[g] = None
    BY DEF Init
  <2>2. ops \in [Op -> Call]
    BY <1>1 DEF Init
  <2>3. uninstalls \in 0..MaxUninstalls
    BY <1>3 DEF Init
  <2>4. \A g \in Grant : grants[g] # None <=> g \in HeldBy(row, ops)
    BY <2>1, <1>2, <1>3
  <2>5. \A g \in Grant : grants[g] # None => Sound(grants[g])
    BY <2>1
  <2>6. installed \in BOOLEAN /\ hooks \in BOOLEAN /\ row \in Grant \cup {None}
    BY DEF Init
  <2> QED BY <2>1, <2>2, <2>3, <2>4, <2>5, <2>6 DEF TypeOK
<1>5. Held /\ Paired
  BY <1>1 DEF Held, Paired, Idle, Holding, Sure
<1> QED BY <1>4, <1>5 DEF IInv

(* The calls of the gateway.                                               *)
LEMMA CallsKeep ==
  ASSUME IInv, NEW o \in Op,
         \/ Work(o) \/ OpenHome(o) \/ OpenPlan(o)
         \/ Answered(o) \/ Fails(o)
  PROVE  IInv'
<1>1. /\ row \in Grant \cup {None} /\ (row # None => grants[row] # None)
      /\ ops[o] \in Call /\ ops[o].grant \in Grant \cup {None}
      /\ ops[o].grant # None => grants[ops[o].grant] # None
      /\ ops[o].stage \in Holding => ops[o].grant \in Grant
  BY HeldAreKnown
<1>2. grants \in [Grant -> Token \cup {None}]
      /\ \A g \in Grant : grants[g] # None => Sound(grants[g])
  BY DEF IInv, TypeOK
<1>3. None \notin Grant /\ None \notin Token
  BY InstallAssumption
<1>4. Pair \in Token /\ Sound(Pair) /\ Pair.kind # "legacy"
  BY DEF Pair, Token, Kind, Sound
<1>5. "work" \in Why /\ "reconcile" \in Why /\ "home" \in Why
  BY DEF Why
<1>6. \A why \in Why : Exchanging(why) \in Call /\ Exchanging(why).stage \notin Holding
                       /\ Exchanging(why).stage \notin Sure /\ Exchanging(why).grant = None
  BY DEF Exchanging, Call, Stage, Holding, Sure
<1>7. CASE Work(o)
  BY <1>1, <1>5, <1>7, FreshShopKeeps DEF Work
<1>8. CASE OpenPlan(o)
  BY <1>1, <1>5, <1>8, FreshShopKeeps DEF OpenPlan
<1>9. CASE OpenHome(o)
  BY <1>1, <1>5, <1>6, <1>9, LookKeeps DEF OpenHome
<1>10. ASSUME cycleLegacyToken(o) \/ refreshAccessToken(o) PROVE IInv'
  <2>1. ops[o].grant \in Grant /\ grants[ops[o].grant] \in Token /\ ops[o] # Idle
    BY <1>1, <1>2, <1>3, <1>10 DEF cycleLegacyToken, refreshAccessToken, At, Holding, Idle
  <2> DEFINE t == grants[ops[o].grant]
  <2>2. CASE cycleLegacyToken(o)
    <3> DEFINE gs == [grants EXCEPT ![ops[o].grant].access = FALSE]
    <3>1. [t EXCEPT !.access = FALSE] \in Token /\ [t EXCEPT !.access = FALSE].kind = t.kind
          /\ Sound([t EXCEPT !.access = FALSE])
      BY <2>1, <1>1, <1>2, <1>3 DEF Token, Sound
    <3>2. gs = [grants EXCEPT ![ops[o].grant] = [t EXCEPT !.access = FALSE]]
      OBVIOUS
    <3>3. /\ gs \in [Grant -> Token \cup {None}]
          /\ \A g \in Grant : gs[g] # None => Sound(gs[g])
          /\ \A g \in Grant : grants[g] # None => gs[g] # None /\ gs[g].kind = grants[g].kind
      BY <3>1, <3>2, <2>1, <1>2, <1>3
    <3>4. Mint(o, "renewed", Pair, gs) /\ "renewed" \in Stage
      BY <2>2 DEF cycleLegacyToken, Stage
    <3> HIDE DEF gs
    <3> QED BY <3>3, <3>4, <2>1, <1>4, MintKeeps
  <2>3. CASE refreshAccessToken(o)
    <3> DEFINE gs == [grants EXCEPT ![ops[o].grant].refresh = FALSE]
    <3>1. [t EXCEPT !.refresh = FALSE] \in Token /\ [t EXCEPT !.refresh = FALSE].kind = t.kind
          /\ Sound([t EXCEPT !.refresh = FALSE])
      BY <2>1, <1>1, <1>2, <1>3 DEF Token, Sound
    <3>2. gs = [grants EXCEPT ![ops[o].grant] = [t EXCEPT !.refresh = FALSE]]
      OBVIOUS
    <3>3. /\ gs \in [Grant -> Token \cup {None}]
          /\ \A g \in Grant : gs[g] # None => Sound(gs[g])
          /\ \A g \in Grant : grants[g] # None => gs[g] # None /\ gs[g].kind = grants[g].kind
      BY <3>1, <3>2, <2>1, <1>2, <1>3
    <3>4. Mint(o, "renewed", Pair, gs) /\ "renewed" \in Stage
      BY <2>3 DEF refreshAccessToken, Stage
    <3> HIDE DEF gs
    <3> QED BY <3>3, <3>4, <2>1, <1>4, MintKeeps
  <2> QED BY <1>10, <2>2, <2>3
<1>11. CASE exchangeSessionToken(o)
  <2>1. "provisioned" \in Stage /\ "provisioned" \notin Sure /\ ops[o] # Idle
    BY <1>11 DEF Stage, Sure, exchangeSessionToken, At, Idle
  <2> QED BY <2>1, <1>2, <1>4, <1>11, MintKeeps DEF exchangeSessionToken
<1>12. CASE StoreRenewed(o)
  <2>1. /\ ops[o].stage = "renewed" /\ ops[o].grant \in Grant
        /\ grants[ops[o].grant].kind # "legacy"
    BY <1>1, <1>12 DEF StoreRenewed, At, Holding, Sure, IInv, Paired
  <2> DEFINE op == [ops[o] EXCEPT !.stage = "calling"]
  <2>2. ops[o] \in [stage : Stage, why : Why, grant : Grant \cup {None}]
    BY <1>1, <2>1 DEF Call, Idle
  <2>3. op \in Call /\ op.grant = ops[o].grant
    BY <2>2 DEF Call, Stage
  <2>4. Step(o, op, ops[o].grant, grants)
    BY <1>12 DEF StoreRenewed
  <2> HIDE DEF op
  <2> QED BY <2>1, <2>3, <2>4, <1>1, <1>3, LookKeeps
<1>13. CASE StoreProvisioned(o)
  <2>1. ops[o].grant \in Grant /\ grants[ops[o].grant] # None
    BY <1>1, <1>3, <1>13 DEF StoreProvisioned, At, Holding
  <2>2. CASE Step(o, Idle, ops[o].grant, grants)
    BY <2>1, <2>2, EndKeeps
  <2>3. CASE Step(o, freshShop("reconcile", ops[o].grant), ops[o].grant, grants)
    BY <2>1, <2>3, <1>5, FreshShopKeeps
  <2>4. CASE Step(o, freshShop("work", ops[o].grant), ops[o].grant, grants)
    BY <2>1, <2>4, <1>5, FreshShopKeeps
  <2> QED BY <1>13, <2>2, <2>3, <2>4 DEF StoreProvisioned
<1>14. CASE completeInstall(o)
  <2>1. ops[o].grant \in Grant /\ grants[ops[o].grant] # None
    BY <1>1, <1>3, <1>14 DEF completeInstall, At, Holding
  <2> QED BY <2>1, <1>14, EndKeeps DEF completeInstall
<1>15. CASE End(o)
  BY <1>1, <1>15, EndKeeps DEF End
<1>16. CASE Rejected(o) /\ ~End(o)
  BY <1>1, <1>5, <1>6, <1>16, LookKeeps DEF Rejected
<1>17. CASE Fails(o) /\ ~End(o)
  BY <1>1, <1>5, <1>17, FreshShopKeeps DEF Fails
<1> QED
  BY <1>7, <1>8, <1>9, <1>10, <1>11, <1>12, <1>13, <1>14, <1>15, <1>16, <1>17
  DEF Answered, Refused, Accepted

(* What changes the tokens without changing which grants are held, or what *)
(* they are for, keeps the invariant too.                                  *)
LEMMA TokensChange ==
  ASSUME IInv, row' = row, ops' = ops,
         installed' \in BOOLEAN, hooks' \in BOOLEAN, uninstalls' \in 0..MaxUninstalls,
         grants' \in [Grant -> Token \cup {None}],
         \A g \in Grant : grants'[g] = None <=> grants[g] = None,
         \A g \in Grant : grants'[g] # None =>
           Sound(grants'[g]) /\ (grants'[g].kind = "legacy" => grants[g].kind = "legacy")
  PROVE  IInv'
<1>1. \A g \in Grant : grants'[g] # None <=> g \in HeldBy(row', ops')
  BY DEF IInv, TypeOK
<1>2. (\A g \in Grant : grants[g] # None => Sound(grants[g]))'
  BY DEF Sound
<1>3. TypeOK'
  BY <1>1, <1>2 DEF IInv, TypeOK
<1>4. Held'
  BY DEF IInv, Held
<1>5. Paired'
  <2> SUFFICES ASSUME NEW o \in Op, ops[o].stage \in Sure
               PROVE grants'[ops[o].grant].kind # "legacy"
    BY DEF Paired
  <2>1. ops[o].grant \in Grant
    BY DEF IInv, Held, Holding, Sure
  <2>2. grants[ops[o].grant] # None
    BY <2>1 DEF IInv, TypeOK, HeldBy
  <2> QED BY <2>1, <2>2 DEF IInv, Paired
<1> QED BY <1>3, <1>4, <1>5 DEF IInv

(* The callback of an install: nobody holds the grant it is given.         *)
LEMMA AuthorizeKeeps ==
  ASSUME IInv, NEW o \in Op, Authorize(o)
  PROVE  IInv'
<1>1. PICK g \in NewGrant :
        /\ ops' = [ops EXCEPT ![o] = [stage |-> "authorized", why |-> "work", grant |-> g]]
        /\ grants' = [grants EXCEPT ![g] = Legacy]
  BY DEF Authorize
<1>2. /\ ops[o] = Idle /\ installed' = TRUE
      /\ row' = row /\ hooks' = hooks /\ uninstalls' = uninstalls
  BY DEF Authorize
<1>3. g \in Grant /\ g \notin HeldBy(row, ops)
  BY DEF NewGrant, Unused
<1>4. None \notin Grant /\ None \notin Token
  BY InstallAssumption
<1>5. Legacy \in Token /\ Sound(Legacy)
  BY DEF Legacy, Token, Kind, Sound
<1> DEFINE op == [stage |-> "authorized", why |-> "work", grant |-> g]
<1>6. op \in Call /\ op.stage \notin Sure /\ op.grant = g
  BY <1>3 DEF Call, Stage, Why, Sure
<1> HIDE DEF op
<1>7. /\ ops' \in [Op -> Call] /\ ops'[o] = op
      /\ \A p \in Op \ {o} : ops'[p] = ops[p]
  BY <1>1, <1>6 DEF IInv, TypeOK, op
<1>8. /\ grants' \in [Grant -> Token \cup {None}] /\ grants'[g] = Legacy
      /\ \A h \in Grant \ {g} : grants'[h] = grants[h]
  BY <1>1, <1>3, <1>5 DEF IInv, TypeOK
<1>9. HeldBy(row', ops') \cap Grant = (HeldBy(row, ops) \cap Grant) \cup {g}
  BY <1>2, <1>3, <1>4, <1>6, <1>7 DEF HeldBy, Idle
<1>10. \A h \in Grant : grants'[h] # None <=> h \in HeldBy(row', ops')
  BY <1>3, <1>4, <1>5, <1>8, <1>9 DEF IInv, TypeOK
<1>11. (\A h \in Grant : grants[h] # None => Sound(grants[h]))'
  <2>1. \A h \in Grant : grants'[h] # None => Sound(grants'[h])
    BY <1>5, <1>8 DEF IInv, TypeOK
  <2> QED BY <2>1 DEF Sound
<1>12. TypeOK'
  BY <1>2, <1>7, <1>8, <1>10, <1>11 DEF IInv, TypeOK
<1>13. Held'
  BY <1>3, <1>6, <1>7 DEF IInv, Held
<1>14. Paired'
  <2> SUFFICES ASSUME NEW p \in Op, ops'[p].stage \in Sure
               PROVE grants'[ops'[p].grant].kind # "legacy"
    BY DEF Paired
  <2>1. p # o /\ ops'[p] = ops[p]
    BY <1>6, <1>7
  <2>2. ops[p].grant \in Grant \ {g}
    BY <2>1, <1>3 DEF IInv, Held, Holding, Sure, HeldBy
  <2> QED BY <2>1, <2>2, <1>8 DEF IInv, Paired
<1> QED BY <1>12, <1>13, <1>14 DEF IInv

(* The row is emptied: what only the row held is forgotten.                *)
LEMMA ClearedKeeps ==
  ASSUME IInv, Cleared, hooks' \in BOOLEAN
  PROVE  IInv'
<1>1. /\ row' = None /\ installed' = installed /\ ops' = ops /\ uninstalls' = uninstalls
      /\ grants' = [g \in Grant |-> IF g \in HeldBy(None, ops) THEN grants[g] ELSE None]
  BY DEF Cleared
<1>2. None \notin Grant
  BY InstallAssumption
<1>3. grants' \in [Grant -> Token \cup {None}]
  BY <1>1 DEF IInv, TypeOK
<1>4. \A g \in Grant : grants'[g] # None <=> g \in HeldBy(row', ops')
  BY <1>1, <1>2 DEF IInv, TypeOK, HeldBy
<1>5. \A g \in Grant : grants'[g] # None => grants'[g] = grants[g]
  BY <1>1
<1>6. (\A g \in Grant : grants[g] # None => Sound(grants[g]))'
  <2>1. \A g \in Grant : grants'[g] # None => Sound(grants'[g])
    BY <1>5 DEF IInv, TypeOK
  <2> QED BY <2>1 DEF Sound
<1>7. TypeOK'
  BY <1>1, <1>3, <1>4, <1>6 DEF IInv, TypeOK
<1>8. Held'
  BY <1>1 DEF IInv, Held
<1>9. Paired'
  <2> SUFFICES ASSUME NEW o \in Op, ops[o].stage \in Sure
               PROVE grants'[ops[o].grant].kind # "legacy"
    BY <1>1 DEF Paired
  <2>1. ops[o].grant \in Grant
    BY DEF IInv, Held, Holding, Sure
  <2>2. grants'[ops[o].grant] = grants[ops[o].grant]
    BY <1>1, <2>1 DEF HeldBy
  <2> QED BY <2>2 DEF IInv, Paired
<1> QED BY <1>7, <1>8, <1>9 DEF IInv

(* What happens at Shopify, and of what the gateway hears.                 *)
LEMMA PlatformKeeps ==
  ASSUME IInv,
         InstallManaged \/ Uninstall \/ Uninstalled \/ Redacted \/ \E g \in Grant : Age(g)
  PROVE  IInv'
<1>1. /\ grants \in [Grant -> Token \cup {None}]
      /\ installed \in BOOLEAN /\ hooks \in BOOLEAN /\ uninstalls \in 0..MaxUninstalls
      /\ \A g \in Grant : grants[g] # None => Sound(grants[g])
  BY DEF IInv, TypeOK
<1>2. None \notin Token /\ MaxUninstalls \in Nat
  BY InstallAssumption
<1>3. CASE InstallManaged
  BY <1>1, <1>3, TokensChange DEF InstallManaged
<1>4. CASE Uninstall
  <2>1. /\ row' = row /\ ops' = ops /\ installed' = FALSE /\ hooks' = TRUE
        /\ uninstalls < MaxUninstalls /\ uninstalls' = uninstalls + 1
    BY <1>4, Zenon DEF Uninstall
  <2> DEFINE Dead(t) == [t EXCEPT !.access = FALSE, !.refresh = FALSE]
  <2>2. ASSUME NEW t \in Token
        PROVE  Dead(t) \in Token /\ Dead(t).kind = t.kind /\ Sound(Dead(t))
    BY DEF Token, Sound
  <2>3. grants' = [g \in Grant |-> IF grants[g] = None THEN None ELSE Dead(grants[g])]
    BY <1>4 DEF Uninstall
  <2> HIDE DEF Dead
  <2>4. /\ grants' \in [Grant -> Token \cup {None}]
        /\ \A g \in Grant : grants'[g] = None <=> grants[g] = None
        /\ \A g \in Grant : grants'[g] # None =>
             Sound(grants'[g]) /\ (grants'[g].kind = "legacy" => grants[g].kind = "legacy")
    BY <1>1, <1>2, <2>2, <2>3
  <2>5. uninstalls' \in 0..MaxUninstalls
    BY <2>1, <1>1, <1>2
  <2> QED BY <2>1, <2>4, <2>5, TokensChange
<1>5. CASE Uninstalled
  BY <1>5, ClearedKeeps DEF Uninstalled
<1>6. CASE Redacted
  BY <1>1, <1>6, ClearedKeeps DEF Redacted
<1>7. ASSUME NEW g \in Grant, Age(g) PROVE IInv'
  <2>1. /\ row' = row /\ ops' = ops /\ installed' = installed
        /\ hooks' = hooks /\ uninstalls' = uninstalls
    BY <1>7 DEF Age, platform
  <2>2. grants[g] \in Token
    BY <1>1, <1>7 DEF Age
  <2> DEFINE stale == [grants[g] EXCEPT !.kind = "stale", !.access = FALSE]
             lapsed == [grants[g] EXCEPT !.kind = "lapsed", !.refresh = FALSE]
  <2>3. grants[g].kind = "fresh" => stale \in Token /\ Sound(stale) /\ stale.kind = "stale"
    BY <2>2, <1>1, <1>2 DEF Token, Kind, Sound
  <2>4. grants[g].kind = "stale" => lapsed \in Token /\ Sound(lapsed) /\ lapsed.kind = "lapsed"
    BY <2>2, <1>1, <1>2 DEF Token, Kind, Sound
  <2>5. \/ grants[g].kind = "fresh" /\ grants' = [grants EXCEPT ![g] = stale]
        \/ grants[g].kind = "stale" /\ grants' = [grants EXCEPT ![g] = lapsed]
    BY <1>7 DEF Age
  <2> HIDE DEF stale, lapsed
  <2>6. PICK t \in Token : Sound(t) /\ t.kind # "legacy" /\ grants' = [grants EXCEPT ![g] = t]
    BY <2>3, <2>4, <2>5
  <2>7. /\ grants' \in [Grant -> Token \cup {None}]
        /\ \A h \in Grant : grants'[h] = None <=> grants[h] = None
        /\ \A h \in Grant : grants'[h] # None =>
             Sound(grants'[h]) /\ (grants'[h].kind = "legacy" => grants[h].kind = "legacy")
    BY <1>1, <1>2, <2>2, <2>6
  <2> QED BY <1>1, <2>1, <2>7, TokensChange
<1> QED BY <1>3, <1>4, <1>5, <1>6, <1>7

LEMMA Invariance == Spec => []IInv
<1>1. ASSUME IInv, [Next]_vars PROVE IInv'
  <2>1. CASE Next
    <3>1. ASSUME NEW o \in Op, Work(o) \/ OpenHome(o) \/ OpenPlan(o) \/ Answered(o) \/ Fails(o)
          PROVE  IInv'
      BY <1>1, <3>1, CallsKeep
    <3>2. ASSUME NEW o \in Op, Authorize(o) PROVE IInv'
      BY <1>1, <3>2, AuthorizeKeeps
    <3>3. CASE InstallManaged \/ Uninstall \/ Uninstalled \/ Redacted \/ \E g \in Grant : Age(g)
      BY <1>1, <3>3, PlatformKeeps
    <3> QED BY <2>1, <3>1, <3>2, <3>3 DEF Next
  <2>2. CASE UNCHANGED vars
    BY <1>1, <2>2 DEF vars, IInv, TypeOK, Held, Paired, HeldBy, Sound
  <2> QED BY <1>1, <2>1, <2>2
<1> QED BY <1>1, InitHolds, PTL DEF Spec

(* What the row and the calls hold is known, and tokens are what Shopify   *)
(* can have made them, however many calls run at once.                     *)
THEOREM TypeCorrect == Spec => []TypeOK
<1>1. IInv => TypeOK
  BY DEF IInv
<1> QED BY <1>1, Invariance, PTL

(* No call ever takes a non-expiring token to the Admin API, though the    *)
(* OAuth callback still stores them and any number of calls cycle, renew   *)
(* and replace tokens at once (freshShop).                                 *)
THEOREM NoLegacyCalls == Spec => []LegacyIsNeverUsed
<1>1. IInv => LegacyIsNeverUsed
  BY DEF IInv, Paired, LegacyIsNeverUsed, At, Sure, token
<1> QED BY <1>1, Invariance, PTL

-----------------------------------------------------------------------------
(* A step that leaves the row and whatever others hold alone keeps a good  *)
(* token, unless the call was about to store one.                          *)
LEMMA OthersKeep ==
  ASSUME IInv, Kept, NEW o \in Op, NEW op, NEW gs, ops[o].stage # "renewed",
         \A g \in Grant : g \in HeldBy(row, ops) => gs[g] = grants[g],
         Step(o, op, row, gs)
  PROVE  Kept'
<1>1. /\ row' = row
      /\ \A p \in Op \ {o} : ops'[p] = ops[p]
      /\ grants' = [g \in Grant |-> IF g \in HeldBy(row, ops') THEN gs[g] ELSE None]
  BY DEF Step, IInv, TypeOK
<1>2. None \notin Grant /\ row \in Grant \cup {None}
  BY InstallAssumption DEF IInv, TypeOK
<1>3. CASE Alive(row)
  <2>1. row \in Grant /\ grants'[row] = grants[row]
    BY <1>1, <1>2, <1>3 DEF Alive, HeldBy
  <2> QED BY <1>1, <1>3, <2>1 DEF Alive, Kept
<1>4. ASSUME NEW p \in Op, At(p, "renewed"), Alive(ops[p].grant) PROVE Kept'
  <2>1. p # o /\ ops'[p] = ops[p]
    BY <1>1, <1>4 DEF At
  <2>2. ops[p].grant \in Grant
    BY <1>4 DEF IInv, Held, Holding, At
  <2>3. grants'[ops[p].grant] = grants[ops[p].grant]
    BY <1>1, <2>1, <2>2 DEF HeldBy
  <2> QED BY <1>4, <2>1, <2>3 DEF Alive, At, Kept
<1> QED BY <1>3, <1>4 DEF Kept

(* A call that got an answer in place of the token it gave up holds it.    *)
LEMMA RenewalKeeps ==
  ASSUME IInv, NEW o \in Op, NEW gs \in [Grant -> Token \cup {None}],
         Mint(o, "renewed", Pair, gs), ops[o] # Idle
  PROVE  Kept'
<1>1. PICK g \in NewGrant :
        Step(o, [ops[o] EXCEPT !.stage = "renewed", !.grant = g], row, [gs EXCEPT ![g] = Pair])
  BY DEF Mint
<1>2. g \in Grant /\ None \notin Grant
  BY InstallAssumption DEF NewGrant, Unused
<1>3. ops[o] \in [stage : Stage, why : Why, grant : Grant \cup {None}]
  BY DEF IInv, TypeOK, Call
<1> DEFINE op == [ops[o] EXCEPT !.stage = "renewed", !.grant = g]
<1>4. op.stage = "renewed" /\ op.grant = g
  BY <1>3
<1> HIDE DEF op
<1>5. ops'[o] = op
  BY <1>1 DEF Step, IInv, TypeOK, op
<1>6. grants' = [h \in Grant |-> IF h \in HeldBy(row, ops') THEN [gs EXCEPT ![g] = Pair][h] ELSE None]
  BY <1>1 DEF Step
<1>7. grants'[g] = Pair
  BY <1>2, <1>4, <1>5, <1>6 DEF HeldBy
<1> QED BY <1>2, <1>4, <1>5, <1>7 DEF Kept, Alive, At, Pair

(* The calls.                                                              *)
LEMMA CallsExcused ==
  ASSUME IInv, Kept, NEW o \in Op,
         \/ Work(o) \/ OpenHome(o) \/ OpenPlan(o) \/ Authorize(o)
         \/ Answered(o) \/ Fails(o)
  PROVE  Kept' \/ Excused
<1>1. /\ ops[o] \in Call /\ ops[o].grant \in Grant \cup {None}
      /\ ops[o].stage \in Holding => ops[o].grant \in Grant
      /\ ops[o].grant # None => grants[ops[o].grant] # None
  BY HeldAreKnown
<1>2. grants \in [Grant -> Token \cup {None}]
  BY DEF IInv, TypeOK
<1>3. ASSUME NEW op, ops[o].stage # "renewed", Step(o, op, row, grants) PROVE Kept'
  BY <1>3, OthersKeep
<1>4. CASE Work(o) \/ OpenHome(o) \/ OpenPlan(o)
  <2>1. ops[o].stage # "renewed"
    BY <1>4 DEF Work, OpenHome, OpenPlan, Idle
  <2> QED BY <1>3, <1>4, <2>1 DEF Work, OpenHome, OpenPlan
<1>5. CASE Authorize(o)
  <2>1. PICK g \in NewGrant :
          /\ ops' = [ops EXCEPT ![o] = [stage |-> "authorized", why |-> "work", grant |-> g]]
          /\ grants' = [grants EXCEPT ![g] = Legacy]
    BY <1>5 DEF Authorize
  <2>2. row' = row /\ ops[o] = Idle /\ \A p \in Op \ {o} : ops'[p] = ops[p]
    BY <1>5, <2>1 DEF Authorize, IInv, TypeOK
  <2>3. \A h \in Grant : h \in HeldBy(row, ops) => grants'[h] = grants[h]
    BY <1>2, <2>1 DEF NewGrant, Unused
  <2>4. None \notin Grant /\ row \in Grant \cup {None}
    BY InstallAssumption DEF IInv, TypeOK
  <2>5. CASE Alive(row)
    BY <2>2, <2>3, <2>4, <2>5 DEF Kept, Alive, HeldBy
  <2>6. ASSUME NEW p \in Op, At(p, "renewed"), Alive(ops[p].grant) PROVE Kept'
    <3>1. p # o /\ ops[p].grant \in Grant /\ ops'[p] = ops[p]
      BY <2>2, <2>6 DEF At, Idle, IInv, Held, Holding
    <3>2. grants'[ops[p].grant] = grants[ops[p].grant]
      BY <2>3, <3>1 DEF HeldBy
    <3> QED BY <2>6, <3>1, <3>2 DEF Kept, Alive, At
  <2> QED BY <2>5, <2>6 DEF Kept
<1>6. CASE cycleLegacyToken(o)
  <2>1. ops[o].grant \in Grant /\ grants[ops[o].grant] \in Token /\ ops[o] # Idle
    BY <1>1, <1>2, <1>6, InstallAssumption DEF cycleLegacyToken, At, Holding, Idle
  <2> DEFINE gs == [grants EXCEPT ![ops[o].grant].access = FALSE]
  <2>2. [grants[ops[o].grant] EXCEPT !.access = FALSE] \in Token
    BY <2>1 DEF Token
  <2>3. gs \in [Grant -> Token \cup {None}]
    BY <2>1, <2>2, <1>2
  <2>4. Mint(o, "renewed", Pair, gs)
    BY <1>6 DEF cycleLegacyToken
  <2> HIDE DEF gs
  <2> QED BY <2>1, <2>3, <2>4, RenewalKeeps
<1>7. CASE refreshAccessToken(o)
  <2>1. ops[o].grant \in Grant /\ grants[ops[o].grant] \in Token /\ ops[o] # Idle
    BY <1>1, <1>2, <1>7, InstallAssumption DEF refreshAccessToken, At, Holding, Idle
  <2> DEFINE gs == [grants EXCEPT ![ops[o].grant].refresh = FALSE]
  <2>2. [grants[ops[o].grant] EXCEPT !.refresh = FALSE] \in Token
    BY <2>1 DEF Token
  <2>3. gs \in [Grant -> Token \cup {None}]
    BY <2>1, <2>2, <1>2
  <2>4. Mint(o, "renewed", Pair, gs)
    BY <1>7 DEF refreshAccessToken
  <2> HIDE DEF gs
  <2> QED BY <2>1, <2>3, <2>4, RenewalKeeps
<1>8. CASE exchangeSessionToken(o)
  <2>1. PICK g \in NewGrant :
          Step(o, [ops[o] EXCEPT !.stage = "provisioned", !.grant = g], row,
               [grants EXCEPT ![g] = Pair])
    BY <1>8 DEF exchangeSessionToken, Mint
  <2>2. g \notin HeldBy(row, ops)
    BY DEF NewGrant, Unused
  <2> DEFINE gs == [grants EXCEPT ![g] = Pair]
  <2>3. \A h \in Grant : h \in HeldBy(row, ops) => gs[h] = grants[h]
    BY <1>2, <2>2
  <2>4. ops[o].stage # "renewed"
    BY <1>8 DEF exchangeSessionToken, At
  <2> HIDE DEF gs
  <2>5. \E op : Step(o, op, row, gs)
    BY <2>1 DEF gs
  <2> QED BY <2>3, <2>4, <2>5, OthersKeep
<1>9. ASSUME NEW op, Step(o, op, ops[o].grant, grants), ops[o].grant \in Grant
      PROVE  Kept' \/ Excused
  <2>1. /\ row' = ops[o].grant
        /\ grants' = [g \in Grant |-> IF g \in HeldBy(row', ops') THEN grants[g] ELSE None]
    BY <1>9 DEF Step
  <2>2. grants'[row'] = grants[row']
    BY <1>9, <2>1 DEF HeldBy
  <2>3. CASE Alive(row')
    BY <2>2, <2>3 DEF Alive, Kept
  <2>4. CASE ~Alive(row')
    BY <2>1, <2>4 DEF Excused
  <2> QED BY <2>3, <2>4
<1>10. CASE StoreRenewed(o) \/ StoreProvisioned(o) \/ completeInstall(o)
  <2>1. ops[o].grant \in Grant
    BY <1>1, <1>10 DEF StoreRenewed, StoreProvisioned, completeInstall, At, Holding
  <2>2. \E op : Step(o, op, ops[o].grant, grants)
    BY <1>10 DEF StoreRenewed, StoreProvisioned, completeInstall
  <2> QED BY <2>1, <2>2, <1>9
<1>11. CASE End(o)
  <2>1. ops'[o] = Idle
    BY <1>11 DEF End, Step, IInv, TypeOK
  <2>2. CASE ops[o].stage = "renewed"
    BY <2>1, <2>2 DEF Excused
  <2>3. CASE ops[o].stage # "renewed"
    BY <2>3, <1>3, <1>11 DEF End
  <2> QED BY <2>2, <2>3
<1>12. CASE Rejected(o) /\ ~End(o)
  BY <1>3, <1>12 DEF Rejected, At
<1>13. CASE Fails(o) /\ ~End(o)
  BY <1>3, <1>13 DEF Fails
<1> QED
  BY <1>4, <1>5, <1>6, <1>7, <1>8, <1>10, <1>11, <1>12, <1>13
  DEF Answered, Refused, Accepted

(* Shopify's side: time takes the row's token only when it lapses.         *)
LEMMA PlatformExcused ==
  ASSUME IInv, Kept,
         InstallManaged \/ Uninstall \/ Uninstalled \/ Redacted \/ \E g \in Grant : Age(g)
  PROVE  Kept' \/ Excused
<1>1. CASE InstallManaged
  BY <1>1 DEF InstallManaged, Kept, Alive, At
<1>2. CASE Uninstall
  BY <1>2, Zenon DEF Uninstall, Excused
<1>3. CASE Uninstalled \/ Redacted
  BY <1>3 DEF Uninstalled, Redacted, Cleared, Excused
<1>4. ASSUME NEW g \in Grant, Age(g) PROVE Kept' \/ Excused
  <2>1. row' = row /\ ops' = ops /\ grants[g] \in Token
        /\ grants \in [Grant -> Token \cup {None}] /\ row \in Grant \cup {None} /\ None \notin Grant
    BY <1>4, InstallAssumption DEF Age, IInv, TypeOK
  <2>2. CASE grants[g].kind = "fresh"
    <3> DEFINE t == [grants[g] EXCEPT !.kind = "stale", !.access = FALSE]
    <3>1. t.refresh = grants[g].refresh /\ t.kind = "stale"
      BY <2>1 DEF Token
    <3> HIDE DEF t
    <3>2. grants' = [grants EXCEPT ![g] = t]
      BY <1>4, <2>2 DEF Age, t
    <3>3. grants'[g] = t /\ \A h \in Grant \ {g} : grants'[h] = grants[h]
      BY <2>1, <3>2
    <3>4. ASSUME NEW h \in Grant, Alive(h)
          PROVE  grants'[h].refresh \/ (grants'[h].kind = "legacy" /\ grants'[h].access)
      BY <2>2, <3>1, <3>3, <3>4 DEF Alive
    <3>5. CASE Alive(row)
      BY <2>1, <3>4, <3>5 DEF Kept, Alive
    <3>6. ASSUME NEW p \in Op, At(p, "renewed"), Alive(ops[p].grant) PROVE Kept'
      <4>1. ops[p].grant \in Grant
        BY <3>6 DEF IInv, Held, Holding, At
      <4> QED BY <2>1, <3>4, <3>6, <4>1 DEF Kept, Alive, At
    <3> QED BY <3>5, <3>6 DEF Kept
  <2>3. CASE grants[g].kind = "stale"
    <3> DEFINE t == [grants[g] EXCEPT !.kind = "lapsed", !.refresh = FALSE]
    <3>1. t.kind = "lapsed"
      BY <2>1 DEF Token
    <3> HIDE DEF t
    <3>2. grants' = [grants EXCEPT ![g] = t] /\ \A o \in Op : ops[o].grant # g
      BY <1>4, <2>3 DEF Age, t
    <3>3. grants'[g] = t /\ \A h \in Grant \ {g} : grants'[h] = grants[h]
      BY <2>1, <3>2
    <3>4. CASE row = g
      BY <2>1, <3>1, <3>3, <3>4 DEF Excused
    <3>5. CASE row # g /\ Alive(row)
      BY <2>1, <3>3, <3>5 DEF Kept, Alive
    <3>6. ASSUME NEW p \in Op, At(p, "renewed"), Alive(ops[p].grant) PROVE Kept'
      <4>1. ops[p].grant \in Grant \ {g}
        BY <3>2, <3>6 DEF IInv, Held, Holding, At
      <4> QED BY <2>1, <3>3, <3>6, <4>1 DEF Kept, Alive, At
    <3> QED BY <3>4, <3>5, <3>6 DEF Kept
  <2> QED BY <1>4, <2>2, <2>3 DEF Age
<1> QED BY <1>1, <1>2, <1>3, <1>4

(* However many calls renew, cycle and replace the token at once, none of  *)
(* them strands the shop: a step takes its last good token only as         *)
(* TokensAreKept allows (freshShop, provisionShop, completeInstall).       *)
THEOREM NoShopIsStranded == Spec => TokensAreKept
<1>1. ASSUME IInv, [Next]_vars PROVE Kept /\ ~Kept' => Excused
  <2> SUFFICES ASSUME Kept PROVE Kept' \/ Excused
    OBVIOUS
  <2>1. ASSUME NEW o \in Op,
               \/ Work(o) \/ OpenHome(o) \/ OpenPlan(o) \/ Authorize(o)
               \/ Answered(o) \/ Fails(o)
        PROVE  Kept' \/ Excused
    BY <1>1, <2>1, CallsExcused
  <2>2. CASE InstallManaged \/ Uninstall \/ Uninstalled \/ Redacted \/ \E g \in Grant : Age(g)
    BY <1>1, <2>2, PlatformExcused
  <2>3. CASE UNCHANGED vars
    BY <2>3 DEF vars, Kept, Alive, At
  <2> QED BY <1>1, <2>1, <2>2, <2>3 DEF Next
<1> QED BY <1>1, Invariance, PTL DEF Spec, TokensAreKept
=============================================================================
