----------------------------- MODULE AccountProofs -----------------------------
(***************************************************************************)
(* What holds of the lock of a shared profile and of the signed-in         *)
(* session, for any number of devices, users, API clients, sign-ins,       *)
(* rotations, lost requests and crashes.                                   *)
(***************************************************************************)
EXTENDS TeamLock, CloudSession, TLAPS

(***************************************************************************)
(* The team lock.                                                          *)
(***************************************************************************)
USE OwnerAssumption, GraceAssumption

\* What is lost is counted.
LEMMA LossType ==
  ASSUME LeaseTypeOK, NEW names \in SUBSET {"unclear", "unreleased", "parted", "shared"},
         Loss(names) \/ NoLoss
  PROVE  losses' \in 0 .. MaxLosses /\ mishap' \subseteq {"unclear", "unreleased", "parted", "shared"}
<1>1. losses' \in 0 .. MaxLosses
  BY DEF Loss, NoLoss, LeaseTypeOK
<1>2. mishap' = mishap \cup names \/ mishap' = mishap
  BY DEF Loss, NoLoss
<1>3. mishap \subseteq {"unclear", "unreleased", "parted", "shared"}
  BY DEF LeaseTypeOK
<1> QED BY <1>1, <1>2, <1>3

LEMMA LeaseTypeStep ==
  ASSUME LeaseTypeOK, [LeaseNext]_leaseVars
  PROVE  LeaseTypeOK'
<1> USE DEF LeaseTypeOK, UseSteps, Connecting, Beats, Uses, GoesOn, BeatsOn
<1>1. CASE Round BY <1>1 DEF Round
<1>2. ASSUME NEW d \in Seats, LaunchProfile(d) PROVE LeaseTypeOK'
  BY <1>2 DEF LaunchProfile, StartConnect
<1>3. ASSUME NEW d \in Seats, Reconnect(d) PROVE LeaseTypeOK'
  BY <1>3 DEF Reconnect, StartConnect
<1>4. ASSUME NEW d \in Seats, AwaitConnect(d) \/ CheckCache(d) PROVE LeaseTypeOK'
  BY <1>4 DEF AwaitConnect, CheckCache
<1>5. ASSUME NEW d \in Seats, PostLock(d) PROVE LeaseTypeOK'
  BY <1>5 DEF PostLock, Mine
<1>6. ASSUME NEW d \in Seats, PostLost(d) PROVE LeaseTypeOK'
  <2>1. losses' \in 0 .. MaxLosses /\ mishap' \subseteq {"unclear", "unreleased", "parted", "shared"}
    BY <1>6, LossType DEF PostLost
  <2> QED BY <1>6, <2>1 DEF PostLost
<1>7. ASSUME NEW d \in Seats, InsertLock(d) \/ Spawn(d) \/ BrowserEnds(d) PROVE LeaseTypeOK'
  <2>1. CASE InsertLock(d) BY <2>1 DEF InsertLock
  <2>2. CASE Spawn(d) BY <2>2 DEF Spawn
  <2>3. CASE BrowserEnds(d) BY <2>3 DEF BrowserEnds
  <2> QED BY <1>7, <2>1, <2>2, <2>3
<1>8. ASSUME NEW d \in Seats, DeleteLock(d) PROVE LeaseTypeOK'
  <2>1. losses' \in 0 .. MaxLosses /\ mishap' \subseteq {"unclear", "unreleased", "parted", "shared"}
    BY <1>8, LossType DEF DeleteLock
  <2> QED BY <1>8, <2>1 DEF DeleteLock, Mine
<1>9. ASSUME NEW d \in Seats, ForgetLock(d) \/ ReplaceLocks(d) \/ WakeLoop(d) PROVE LeaseTypeOK'
  BY <1>9 DEF ForgetLock, ReplaceLocks, WakeLoop
<1>10. ASSUME NEW d \in Seats, FetchLocks(d) PROVE LeaseTypeOK'
  <2>1. losses' \in 0 .. MaxLosses /\ mishap' \subseteq {"unclear", "unreleased", "parted", "shared"}
    BY <1>10, LossType DEF FetchLocks
  <2> QED BY <1>10, <2>1 DEF FetchLocks
<1>11. ASSUME NEW d \in Seats, SendHeartbeat(d) PROVE LeaseTypeOK'
  <2>1. losses' \in 0 .. MaxLosses /\ mishap' \subseteq {"unclear", "unreleased", "parted", "shared"}
    BY <1>11, LossType DEF SendHeartbeat
  <2> QED BY <1>11, <2>1 DEF SendHeartbeat, Mine
<1>12. ASSUME NEW d \in Seats, Disconnect(d) PROVE LeaseTypeOK'
  <2>1. losses' \in 0 .. MaxLosses /\ mishap' \subseteq {"unclear", "unreleased", "parted", "shared"}
    BY <1>12, LossType DEF Disconnect
  <2> QED BY <1>12, <2>1 DEF Disconnect
<1>13. ASSUME NEW d \in Seats, RestartApp(d) PROVE LeaseTypeOK'
  <2>1. losses' \in 0 .. MaxLosses /\ mishap' \subseteq {"unclear", "unreleased", "parted", "shared"}
    BY <1>13, LossType DEF RestartApp
  <2> QED BY <1>13, <2>1 DEF RestartApp
<1>14. CASE UNCHANGED leaseVars BY <1>14 DEF leaseVars
<1> QED
  BY <1>1, <1>2, <1>3, <1>4, <1>5, <1>6, <1>7, <1>8, <1>9, <1>10, <1>11, <1>12, <1>13, <1>14
     DEF LeaseNext

\* Every variable of TeamLock keeps to its type.
THEOREM LeaseTypes == LeaseSpec => []LeaseTypeOK
<1>1. LeaseInit => LeaseTypeOK
  BY DEF LeaseInit, LeaseTypeOK, UseSteps, Beats, Connecting
<1> QED
  BY <1>1, LeaseTypeStep, PTL DEF LeaseSpec

(***************************************************************************)
(* The lease of a device that keeps up.                                    *)
(***************************************************************************)
\* The device has, or is about to have or to give back, the lock.
Holds(d) == browsing[d] \/ use[d] \in {"insert", "spawn", "delete"}
Seen(d) == known[d] = Owner[d]

\* The rounds that may still go by before its loop renews the lock.
Lag(d) ==
  IF beat[d] = "beat" \/ (beat[d] = "due" /\ Seen(d)) THEN 0
  ELSE IF \/ beat[d] \in {"enter", "replace"} /\ answer[d] # Owner[d]
          \/ beat[d] = "rested" /\ ~Seen(d) THEN 2
  ELSE 1

Standing(d) ==
  /\ signedIn[d]
  /\ connected[d] <=> beat[d] # "off"
  /\ use[d] # "idle" \/ browsing[d] => connected[d]
  /\ browsing[d] => use[d] = "idle"
Leased(d) == Holds(d) => Mine(d) /\ age + Lag(d) <= 2 + losses
OneSeat == \A d, e \in Seats : Holds(d) /\ Holds(e) => d = e

\* The strengthening: nobody is cut off from his manager, one device at most holds the
\* lock, and what is left of its lease covers what its loop may still take.
LeaseInv == KeepsUp => OneSeat /\ \A d \in Seats : Standing(d) /\ Leased(d)

LEMMA KeptUp ==
  ASSUME LeaseTypeOK, [LeaseNext]_leaseVars, KeepsUp'
  PROVE  KeepsUp
BY DEF LeaseTypeOK, KeepsUp, LeaseNext, leaseVars, Round, LaunchProfile, Reconnect, AwaitConnect,
       CheckCache, PostLock, PostLost, InsertLock, Spawn, BrowserEnds, DeleteLock, ForgetLock,
       FetchLocks, ReplaceLocks, WakeLoop, SendHeartbeat, Disconnect, RestartApp, Loss, NoLoss

\* What the devices other than d know and do stays as it is.
OnlyMoves(d) ==
  \A e \in Seats \ {d} :
    /\ known'[e] = known[e] /\ signedIn'[e] = signedIn[e] /\ connected'[e] = connected[e]
    /\ beat'[e] = beat[e] /\ answer'[e] = answer[e] /\ use'[e] = use[e]
    /\ browsing'[e] = browsing[e]

Steady == OneSeat /\ \A d \in Seats : Standing(d) /\ Leased(d)

LEMMA LagRange == \A d \in Seats : Lag(d) \in 0 .. 2
BY DEF Lag

\* A step of one device that does not take the lock, and does not take it from another one,
\* leaves the others as steady as they were.
LEMMA OneMoves ==
  ASSUME LeaseTypeOK, Steady, NEW d \in Seats, OnlyMoves(d), age' \in Nat, losses' \in Nat,
         losses <= losses', age' <= age,
         \A e \in Seats \ {d} : Holds(e) => holder' = holder,
         \A e \in Seats \ {d} : Holds(d)' => Holds(d) \/ ~Holds(e),
         Standing(d)', Leased(d)'
  PROVE  Steady'
<1>1. ASSUME NEW e \in Seats \ {d} PROVE Standing(e)' /\ (Holds(e)' <=> Holds(e))
  BY <1>1 DEF OnlyMoves, Standing, Holds, Steady
<1>2. ASSUME NEW e \in Seats \ {d} PROVE Leased(e)'
  <2>1. SUFFICES ASSUME Holds(e) PROVE Leased(e)'
    BY <1>1, <1>2 DEF Leased
  <2>2. Lag(e)' = Lag(e)
    BY <1>2 DEF Lag, Seen, OnlyMoves
  <2> QED
    BY <2>1, <2>2, <1>2, LagRange DEF Leased, Steady, Mine, LeaseTypeOK
<1>3. OneSeat'
  BY <1>1 DEF OneSeat, Steady
<1> QED
  BY <1>1, <1>2, <1>3 DEF Steady

LEMMA RoundSteady ==
  ASSUME LeaseTypeOK, Steady, KeepsUp, Round
  PROVE  Steady'
<1>1. \A d \in Seats : Holds(d) => beat[d] = "rested" /\ age < Grace
  BY DEF Steady, Round, Standing, Leased, Lag, Holds, KeepsUp, LeaseTypeOK
<1>2. \A d \in Seats : Holds(d)' <=> Holds(d)
  BY DEF Round, Holds
<1>3. \A d \in Seats : Standing(d)'
  BY DEF Steady, Round, Standing, LeaseTypeOK
<1>4. ASSUME NEW d \in Seats, Holds(d) PROVE Leased(d)'
  <2>1. holder = Owner[d] /\ holder # NoUser
    BY <1>4 DEF Steady, Leased, Mine
  <2>2. age' = age + 1 /\ holder' = holder /\ losses' = losses /\ known' = known
    BY <1>1, <1>4, <2>1 DEF Round
  <2>3. beat[d] = "rested" /\ beat'[d] = "due"
    BY <1>1, <1>4 DEF Round, LeaseTypeOK
  <2>4. Lag(d)' + 1 = Lag(d)
    BY <2>2, <2>3 DEF Lag, Seen
  <2>5. Lag(d) \in Nat /\ Lag(d)' \in Nat /\ age \in Nat /\ losses \in Nat
    BY <2>4, LagRange DEF LeaseTypeOK, Lag
  <2>6. age + Lag(d) <= 2 + losses
    BY <1>4 DEF Steady, Leased
  <2> QED BY <2>1, <2>2, <2>4, <2>5, <2>6 DEF Leased, Mine
<1> QED BY <1>2, <1>3, <1>4 DEF OneSeat, Leased, Steady

\* The launch and the stop of the browser.
LEMMA UseSteady ==
  ASSUME LeaseTypeOK, Steady, NEW d \in Seats,
         \/ LaunchProfile(d) \/ AwaitConnect(d) \/ CheckCache(d) \/ InsertLock(d)
         \/ Spawn(d) \/ BrowserEnds(d) \/ ForgetLock(d)
  PROVE  Steady'
<1> USE DEF Uses, GoesOn, BeatsOn, StartConnect, Connecting
<1>1. Standing(d) /\ Leased(d) BY DEF Steady
<1>2. OnlyMoves(d) /\ UNCHANGED <<holder, age, losses, signedIn>>
  BY DEF OnlyMoves, LeaseTypeOK, LaunchProfile, AwaitConnect, CheckCache, InsertLock, Spawn,
         BrowserEnds, ForgetLock
<1>3. Standing(d)'
  BY <1>1 DEF Standing, LeaseTypeOK, LaunchProfile, AwaitConnect, CheckCache, InsertLock, Spawn,
              BrowserEnds, ForgetLock
<1>4. Holds(d)' => Holds(d)
  BY <1>1 DEF Holds, Standing, LeaseTypeOK, LaunchProfile, AwaitConnect, CheckCache, InsertLock,
              Spawn, BrowserEnds, ForgetLock
<1>5. Holds(d)' => Lag(d)' <= Lag(d)
  BY <1>1 DEF Lag, Seen, Holds, Standing, LeaseTypeOK, LaunchProfile, AwaitConnect, CheckCache,
              InsertLock, Spawn, BrowserEnds, ForgetLock
<1>6. Lag(d)' \in 0 .. 2 /\ Lag(d) \in 0 .. 2
  BY DEF Lag
<1>7. Leased(d)'
  BY <1>1, <1>2, <1>4, <1>5, <1>6 DEF Leased, Mine, LeaseTypeOK
<1> QED
  BY <1>2, <1>3, <1>4, <1>7, OneMoves DEF LeaseTypeOK

\* The connect and the loop.
LEMMA BeatSteady ==
  ASSUME LeaseTypeOK, Steady, NEW d \in Seats,
         \/ Reconnect(d) \/ FetchLocks(d) \/ ReplaceLocks(d) \/ WakeLoop(d)
         \/ SendHeartbeat(d)
  PROVE  Steady'
<1> USE DEF BeatsOn, StartConnect, Connecting, Loss, NoLoss
<1>1. Standing(d) /\ Leased(d) BY DEF Steady
<1>2. OnlyMoves(d) /\ UNCHANGED <<holder, use, browsing>>
  BY DEF OnlyMoves, LeaseTypeOK, Reconnect, FetchLocks, ReplaceLocks, WakeLoop, SendHeartbeat
<1>3. Standing(d)'
  BY <1>1 DEF Standing, LeaseTypeOK, Reconnect, FetchLocks, ReplaceLocks, WakeLoop,
              SendHeartbeat
<1>4. Holds(d)' <=> Holds(d)
  BY <1>2 DEF Holds
<1>5. age' \in Nat /\ losses' \in Nat /\ age' <= age /\ losses <= losses'
  BY DEF LeaseTypeOK, Reconnect, FetchLocks, ReplaceLocks, WakeLoop, SendHeartbeat
<1>6. ASSUME Holds(d) PROVE age' + Lag(d)' <= 2 + losses'
  <2>1. Mine(d) /\ age + Lag(d) <= 2 + losses /\ age \in Nat /\ losses \in Nat
    BY <1>1, <1>6 DEF Leased, LeaseTypeOK
  <2>2. CASE Reconnect(d) BY <1>1, <1>6, <2>2 DEF Reconnect, Standing, Holds
  <2>3. CASE FetchLocks(d)
    <3>1. Lag(d) = 1 BY <2>3 DEF FetchLocks, Lag
    <3>2. CASE answer' = [answer EXCEPT ![d] = holder] /\ NoLoss /\ beat'[d] \in {"enter", "replace"}
      <4>1. Lag(d)' = 1 BY <2>1, <3>2 DEF Lag, LeaseTypeOK, Mine
      <4> QED BY <2>1, <2>3, <3>1, <3>2, <4>1 DEF FetchLocks
    <3>3. CASE losses' = losses + 1
      <4>1. Lag(d)' \in 0 .. 2 BY DEF Lag
      <4> QED BY <2>1, <2>3, <3>1, <3>3, <4>1 DEF FetchLocks
    <3> QED BY <2>3, <3>2, <3>3 DEF FetchLocks, LeaseTypeOK
  <2>4. CASE ReplaceLocks(d)
    <3>1. Lag(d)' = Lag(d) BY <2>4 DEF ReplaceLocks, Lag, Seen, LeaseTypeOK
    <3> QED BY <2>1, <2>4, <3>1 DEF ReplaceLocks
  <2>5. CASE WakeLoop(d)
    <3>1. Lag(d)' = Lag(d) BY <1>1, <2>5 DEF WakeLoop, Lag, Seen, LeaseTypeOK, Standing
    <3> QED BY <2>1, <2>5, <3>1 DEF WakeLoop
  <2>6. CASE SendHeartbeat(d)
    <3>1. Lag(d) = 0 /\ Lag(d)' = 1 BY <2>6 DEF SendHeartbeat, Lag, LeaseTypeOK
    <3> QED BY <2>1, <2>6, <3>1 DEF SendHeartbeat
  <2> QED BY <2>2, <2>3, <2>4, <2>5, <2>6
<1>7. Leased(d)'
  BY <1>1, <1>2, <1>4, <1>6 DEF Leased, Mine
<1> QED
  BY <1>2, <1>3, <1>4, <1>5, <1>7, OneMoves

\* The requests for the lock.
LEMMA PostSteady ==
  ASSUME LeaseTypeOK, Steady, NEW d \in Seats, KeepsUp', PostLock(d) \/ PostLost(d)
  PROVE  Steady'
<1> USE DEF Uses, GoesOn
<1>1. Standing(d) /\ Leased(d) BY DEF Steady
<1>2. OnlyMoves(d) /\ age' \in Nat /\ losses' \in Nat /\ age' <= age /\ losses <= losses'
  BY DEF OnlyMoves, LeaseTypeOK, PostLock, PostLost, Loss
<1>3. Standing(d)'
  BY <1>1 DEF Standing, LeaseTypeOK, PostLock, PostLost
<1>4. CASE use'[d] = "idle" /\ UNCHANGED holder
  <2>1. ~Holds(d)'
    BY <1>1, <1>4 DEF Holds, Standing, PostLock, PostLost
  <2> QED BY <1>2, <1>3, <1>4, <2>1, OneMoves DEF Leased
<1>5. CASE holder' = Owner[d] /\ holder \in {NoUser, Owner[d]}
  <2>1. CASE PostLock(d)
    <3>1. signedIn[d] BY <1>1 DEF Standing
    <3>2. ~Mine(d) BY <2>1, <3>1 DEF PostLock, KeepsUp
    <3>3. \A e \in Seats : ~Holds(e)
      BY <1>5, <3>2 DEF Steady, Leased, Mine
    <3>4. CASE use'[d] = "insert" /\ age' = 0
      <4>1. Lag(d)' \in 0 .. 2 BY DEF Lag
      <4>2. Leased(d)'
        BY <1>2, <1>5, <3>4, <4>1 DEF Leased, Mine
      <4> QED BY <1>2, <1>3, <3>3, <4>2, OneMoves
    <3> QED BY <2>1, <3>1, <3>4, <1>5 DEF PostLock, LeaseTypeOK
  <2>2. CASE PostLost(d)
    <3>1. ~Holds(d)'
      BY <1>1, <2>2 DEF Holds, Standing, PostLost, LeaseTypeOK
    <3>2. \A e \in Seats \ {d} : Holds(e) => holder' = holder
      BY <1>5 DEF Steady, Leased, Mine
    <3> QED BY <1>2, <1>3, <3>1, <3>2, OneMoves DEF Leased
  <2> QED BY <2>1, <2>2
<1> QED BY <1>4, <1>5 DEF PostLock, PostLost, LeaseTypeOK

LEMMA DeleteSteady ==
  ASSUME LeaseTypeOK, Steady, NEW d \in Seats, DeleteLock(d)
  PROVE  Steady'
<1> USE DEF Uses, GoesOn, Loss, NoLoss
<1>1. Standing(d) /\ Leased(d) BY DEF Steady
<1>2. OnlyMoves(d) /\ age' \in Nat /\ losses' \in Nat /\ age' <= age /\ losses <= losses'
  BY DEF OnlyMoves, LeaseTypeOK, DeleteLock
<1>3. Standing(d)'
  BY <1>1 DEF Standing, LeaseTypeOK, DeleteLock
<1>4. Holds(d) /\ ~Holds(d)'
  BY <1>1 DEF Holds, Standing, DeleteLock, LeaseTypeOK
<1>5. \A e \in Seats \ {d} : ~Holds(e)
  BY <1>4 DEF Steady, OneSeat
<1> QED BY <1>2, <1>3, <1>4, <1>5, OneMoves DEF Leased

LEMMA LeaseInvStep ==
  ASSUME LeaseTypeOK, LeaseInv, [LeaseNext]_leaseVars
  PROVE  LeaseInv'
<1> SUFFICES ASSUME KeepsUp' PROVE Steady'
  BY DEF LeaseInv, Steady
<1>1. KeepsUp /\ Steady BY KeptUp DEF LeaseInv, Steady
<1>2. ASSUME NEW d \in Seats PROVE ~Disconnect(d) /\ ~RestartApp(d)
  BY DEF Disconnect, RestartApp, Loss, KeepsUp
<1>3. CASE UNCHANGED leaseVars
  BY <1>1, <1>3 DEF Steady, OneSeat, Standing, Leased, Holds, Lag, Seen, Mine, leaseVars
<1> QED
  BY <1>1, <1>2, <1>3, RoundSteady, UseSteady, BeatSteady, PostSteady, DeleteSteady
     DEF LeaseNext

\* The invariant the three properties follow from: one device at most holds the lock, and
\* what is left of its lease covers what its loop may still take.
THEOREM LeaseStands == LeaseSpec => []LeaseInv
<1>1. LeaseInit => LeaseInv
  BY DEF LeaseInit, LeaseInv, OneSeat, Standing, Leased, Holds
<1> QED
  BY <1>1, LeaseTypes, LeaseInvStep, PTL DEF LeaseSpec

\* While the loops keep up with the lease, two users never have the profile open at once.
THEOREM LockExcludes == LeaseSpec => []OneUserAtATime
<1>1. LeaseInv => OneUserAtATime
  BY DEF LeaseInv, OneUserAtATime, OneSeat, Holds
<1> QED
  BY <1>1, LeaseStands, PTL

\* The lock of a running browser was renewed within two rounds, and one more for every
\* request that was lost.
THEOREM LockIsRenewed == LeaseSpec => []RenewedInTime
<1>1. LeaseTypeOK /\ LeaseInv => RenewedInTime
  <2>1. SUFFICES ASSUME LeaseTypeOK, LeaseInv, KeepsUp, NEW d \in Seats, browsing[d]
                 PROVE  Mine(d) /\ age <= 2 + losses
    BY DEF RenewedInTime
  <2>2. Mine(d) /\ age + Lag(d) <= 2 + losses
    BY <2>1 DEF LeaseInv, Leased, Holds
  <2> QED
    BY <2>1, <2>2, LagRange DEF LeaseTypeOK
<1> QED
  BY <1>1, LeaseTypes, LeaseStands, PTL

(***************************************************************************)
(* What is left when nobody uses the profile.                              *)
(***************************************************************************)
LeftoverInv == mishap = {} => (\A d \in Seats : signedIn[d]) /\ NoLeftoverLock

LEMMA LeftoverStep ==
  ASSUME LeaseTypeOK, LeftoverInv, [LeaseNext]_leaseVars
  PROVE  LeftoverInv'
<1> USE DEF Uses, GoesOn, Mine, Loss, NoLoss
<1> SUFFICES ASSUME mishap' = {}
             PROVE  (\A d \in Seats : signedIn'[d]) /\ NoLeftoverLock'
  BY DEF LeftoverInv
<1>1. mishap = {}
  BY DEF LeaseNext, leaseVars, Round, LaunchProfile, Reconnect, AwaitConnect, CheckCache,
         PostLock, PostLost, InsertLock, Spawn, BrowserEnds, DeleteLock, ForgetLock, FetchLocks,
         ReplaceLocks, WakeLoop, SendHeartbeat, Disconnect, RestartApp
<1>2. \A d \in Seats : signedIn[d]
  BY <1>1 DEF LeftoverInv
<1>3. holder # NoUser => \E d \in Seats : Owner[d] = holder /\ Holds(d)
  BY <1>1 DEF LeftoverInv, NoLeftoverLock, Holds
<1>4. \A d \in Seats : signedIn'[d]
  BY <1>1, <1>2 DEF LeaseTypeOK, LeaseNext, leaseVars, Round, LaunchProfile, Reconnect,
         AwaitConnect, CheckCache, PostLock, PostLost, InsertLock, Spawn, BrowserEnds, DeleteLock,
         ForgetLock, FetchLocks, ReplaceLocks, WakeLoop, SendHeartbeat, Disconnect, RestartApp
<1>5. SUFFICES ASSUME holder' # NoUser
               PROVE  \E d \in Seats : Owner[d] = holder' /\ Holds(d)'
  BY <1>4 DEF NoLeftoverLock, Holds
<1>6. ASSUME NEW d \in Seats, PostLock(d) PROVE \E e \in Seats : Owner[e] = holder' /\ Holds(e)'
  <2>1. PICK e \in Seats : holder # NoUser => Owner[e] = holder /\ Holds(e)
    BY <1>3
  <2>2. CASE holder \in {NoUser, Owner[d]}
    BY <1>2, <1>6, <2>2 DEF PostLock, Holds, LeaseTypeOK
  <2>3. CASE holder \notin {NoUser, Owner[d]}
    BY <1>6, <2>1, <2>3 DEF PostLock, Holds, LeaseTypeOK
  <2> QED BY <2>2, <2>3
<1>7. ASSUME NEW d \in Seats, DeleteLock(d)
      PROVE  \E e \in Seats : Owner[e] = holder' /\ Holds(e)'
  <2>1. holder' = holder /\ holder # Owner[d]
    BY <1>2, <1>5, <1>7 DEF DeleteLock
  <2>2. PICK e \in Seats : Owner[e] = holder /\ Holds(e)
    BY <1>3, <1>5, <2>1
  <2> QED BY <1>7, <2>1, <2>2 DEF DeleteLock, Holds, LeaseTypeOK
<1>8. ASSUME \A e \in Seats : Holds(e) => Holds(e)', holder' \in {holder, NoUser}
      PROVE  \E e \in Seats : Owner[e] = holder' /\ Holds(e)'
  BY <1>3, <1>5, <1>8
<1>9. ASSUME NEW d \in Seats,
             \/ LaunchProfile(d) \/ Reconnect(d) \/ AwaitConnect(d) \/ CheckCache(d)
             \/ InsertLock(d) \/ Spawn(d) \/ BrowserEnds(d) \/ ForgetLock(d)
             \/ FetchLocks(d) \/ ReplaceLocks(d) \/ WakeLoop(d) \/ SendHeartbeat(d)
      PROVE  holder' = holder /\ \A e \in Seats : Holds(e) => Holds(e)'
  BY <1>9 DEF LaunchProfile, Reconnect, AwaitConnect, CheckCache, InsertLock, Spawn,
         BrowserEnds, ForgetLock, FetchLocks, ReplaceLocks, WakeLoop, SendHeartbeat, Holds,
         LeaseTypeOK
<1>10. ASSUME NEW d \in Seats PROVE ~PostLost(d) /\ ~Disconnect(d) /\ ~RestartApp(d)
  BY <1>1 DEF PostLost, Disconnect, RestartApp
<1>11. Round => holder' \in {holder, NoUser} /\ \A e \in Seats : Holds(e) => Holds(e)'
  BY DEF Round, Holds
<1>12. UNCHANGED leaseVars => holder' = holder /\ \A e \in Seats : Holds(e) => Holds(e)'
  BY DEF leaseVars, Holds
<1> QED
  BY <1>6, <1>7, <1>8, <1>9, <1>10, <1>11, <1>12 DEF LeaseNext

\* A lock nobody uses is not kept alive by the loops.
THEOREM NoLockStays == LeaseSpec => []NoLeftoverLock
<1>1. LeaseInit => LeftoverInv
  BY DEF LeaseInit, LeftoverInv, NoLeftoverLock
<1>2. LeftoverInv => NoLeftoverLock
  BY DEF LeftoverInv, NoLeftoverLock
<1> QED
  BY <1>1, <1>2, LeaseTypes, LeftoverStep, PTL DEF LeaseSpec

(***************************************************************************)
(* The session of the cloud account.                                       *)
(***************************************************************************)
USE SessionAssumption
USE DEF serverVars, tokenFiles

(***************************************************************************)
(* Types.                                                                  *)
(***************************************************************************)
Steps == {"idle", "request", "again", "compare", "lock", "load", "sent",
          "answered", "stored", "retry", "accepted", "invalidate"}
Acts == [step : Steps, kind : {"sync", "profile"}, token : MaybeToken]

ServerOK ==
  /\ opened \in 0 .. MaxSessions /\ closed \subseteq Sessions
  /\ current \in [Sessions -> 0 .. MaxRotations]
  /\ accepts \in [Sessions -> 0 .. MaxRotations + 1]
StoresOK ==
  /\ access \in MaybeToken /\ refresh \in MaybeToken
  /\ syncToken \in Sessions \cup {NoSession}
  /\ authFile \in Auths /\ auth \in Auths
ActsOK ==
  /\ act \in [Actors -> Acts]
  /\ \A c \in Actors : act[c].step \in Carrying => act[c].token # NoToken
LockOK == refreshLock \in Actors \cup {Nothing}
UserOK ==
  /\ user \in [step : {"none", "exchanged", "kept", "filed", "leaving"}, token : MaybeToken]
  /\ user.step \in {"exchanged", "kept", "filed"} => user.token # NoToken
CountsOK ==
  /\ troubles \in 0 .. MaxTroubles
  /\ flaws \subseteq {"inFlight", "lost", "crashed"}

LEMMA TypeParts ==
  SessionTypeOK <=> ServerOK /\ StoresOK /\ ActsOK /\ LockOK /\ UserOK /\ CountsOK
BY DEF SessionTypeOK, ServerOK, StoresOK, ActsOK, LockOK, UserOK, CountsOK, Acts, Steps

\* One actor goes to a step with a token in hand.
Puts(c, step, token) ==
  /\ act' \in [Actors -> Acts]
  /\ act'[c].step = step /\ act'[c].token = token
  /\ \A d \in Actors \ {c} : act'[d] = act[d]

LEMMA DoesPuts ==
  ASSUME ActsOK, NEW c \in Actors, NEW step \in Steps, Does(c, step)
  PROVE  Puts(c, step, act[c].token)
<1>1. act[c] \in Acts BY DEF ActsOK
<1>2. [act[c] EXCEPT !.step = step] \in Acts BY <1>1 DEF Acts
<1>3. act' = [act EXCEPT ![c] = [act[c] EXCEPT !.step = step]] BY DEF Does
<1>4. act' \in [Actors -> Acts] BY <1>2, <1>3 DEF ActsOK
<1>5. act'[c] = [act[c] EXCEPT !.step = step] BY <1>3 DEF ActsOK
<1>6. act'[c].step = step /\ act'[c].token = act[c].token BY <1>1, <1>5 DEF Acts
<1>7. \A d \in Actors \ {c} : act'[d] = act[d] BY <1>3 DEF ActsOK
<1> QED BY <1>4, <1>6, <1>7 DEF Puts

LEMMA TokenPuts ==
  ASSUME ActsOK, NEW c \in Actors, NEW step \in Steps, NEW token \in MaybeToken,
         act' = [act EXCEPT ![c].step = step, ![c].token = token]
  PROVE  Puts(c, step, token)
<1>1. act[c] \in Acts BY DEF ActsOK
<1>2. [act[c] EXCEPT !.step = step, !.token = token] \in Acts BY <1>1 DEF Acts
<1>3. act'[c] = [act[c] EXCEPT !.step = step, !.token = token]
  BY <1>1 DEF ActsOK, Acts
<1>4. \A d \in Actors \ {c} : act'[d] = act[d] BY DEF ActsOK
<1>5. act' \in [Actors -> Acts]
  <2>1. DOMAIN act' = Actors /\ act' = [d \in Actors |-> act'[d]] BY DEF ActsOK
  <2>2. \A d \in Actors : act'[d] \in Acts BY <1>2, <1>3, <1>4 DEF ActsOK
  <2> QED BY <2>1, <2>2
<1>6. act'[c].step = step /\ act'[c].token = token BY <1>1, <1>3 DEF Acts
<1> QED BY <1>4, <1>5, <1>6 DEF Puts

LEMMA RestsPuts ==
  ASSUME ActsOK, NEW c \in Actors, Rests(c)
  PROVE  Puts(c, "idle", NoToken)
<1>1. Idle \in Acts /\ Idle.step = "idle" /\ Idle.token = NoToken
  BY DEF Idle, Acts, Steps, MaybeToken
<1>2. act' = [act EXCEPT ![c] = Idle] BY DEF Rests
<1> HIDE DEF Idle
<1> QED BY <1>1, <1>2 DEF Puts, ActsOK

LEMMA CallPuts ==
  ASSUME ActsOK, NEW c \in Actors, NEW kind \in {"sync", "profile"}, access \in MaybeToken,
         act' = [act EXCEPT ![c] = [step |-> "request", kind |-> kind, token |-> access]]
  PROVE  Puts(c, "request", access)
<1> DEFINE call == [step |-> "request", kind |-> kind, token |-> access]
<1>1. call \in Acts /\ call.step = "request" /\ call.token = access
  BY DEF Acts, Steps
<1>2. act' = [act EXCEPT ![c] = call] OBVIOUS
<1> HIDE DEF call
<1> QED BY <1>1, <1>2 DEF Puts, ActsOK

Successor(token) == [session |-> token.session, number |-> token.number + 1]

LEMMA NumberPuts ==
  ASSUME ActsOK, NEW c \in Actors, act[c].token \in Tokens, act[c].token.number < MaxRotations,
         act' = [act EXCEPT ![c].step = "answered", ![c].token.number = @ + 1]
  PROVE  Puts(c, "answered", Successor(act[c].token)) /\ Successor(act[c].token) \in Tokens
<1>1. act[c] \in Acts BY DEF ActsOK
<1>2. Successor(act[c].token) = [act[c].token EXCEPT !.number = @ + 1] /\ Successor(act[c].token) \in Tokens
  BY DEF Successor, Tokens
<1>3. act' = [act EXCEPT ![c].step = "answered", ![c].token = Successor(act[c].token)]
  BY <1>1, <1>2 DEF ActsOK, Acts
<1>4. Successor(act[c].token) \in MaybeToken /\ "answered" \in Steps BY <1>2 DEF MaybeToken, Steps
<1> HIDE DEF Successor
<1> QED BY <1>2, <1>3, <1>4, TokenPuts

LEMMA TokenFacts ==
  /\ NoToken \in MaybeToken /\ NoToken \notin Tokens /\ NoToken.session = NoSession
  /\ \A token \in MaybeToken :
       /\ token # NoToken => token \in Tokens
       /\ token.session \in Sessions \cup {NoSession}
       /\ token = NoToken <=> token.session = NoSession
  /\ \A token \in Tokens : token.session \in Sessions /\ token.number \in 0 .. MaxRotations
  /\ NoSession \notin Sessions
<1>1. NoSession \notin Sessions /\ NoToken.session = NoSession BY DEF NoSession, Sessions, NoToken
<1>2. \A token \in Tokens : token.session \in Sessions /\ token.number \in 0 .. MaxRotations
  BY DEF Tokens
<1> QED BY <1>1, <1>2 DEF MaybeToken

LEMMA SomeToken ==
  ASSUME NEW token \in MaybeToken, token # NoToken \/ token.session # NoSession
  PROVE  token \in Tokens /\ token.session \in Sessions /\ token.session # NoSession
<1>1. token # NoToken BY DEF NoToken, NoSession
<1>2. token \in Tokens BY <1>1 DEF MaybeToken
<1>3. token.session \in Sessions BY <1>2 DEF Tokens
<1> QED BY <1>2, <1>3 DEF Sessions, NoSession

LEMMA AuthFacts ==
  /\ NoAuth \in Auths /\ NoAuth.session = NoSession /\ NoAuth.profile = NoSession
  /\ \A a \in Auths : a # NoAuth =>
       /\ a.session \in Sessions /\ a.profile \in Sessions
       /\ a = [session |-> a.session, profile |-> a.profile]
  /\ \A s, p \in Sessions : [session |-> s, profile |-> p] \in Auths
BY DEF Auths, NoAuth

\* What an actor of each action goes to.
ActMove(c) ==
  \E step \in Steps, token \in MaybeToken :
    Puts(c, step, token) /\ (step \in Carrying => token # NoToken)

LEMMA MovesAreTyped ==
  ASSUME ActsOK, NEW c \in Actors, ActMove(c)
  PROVE  ActsOK'
<1>1. PICK step \in Steps, token \in MaybeToken :
        Puts(c, step, token) /\ (step \in Carrying => token # NoToken)
  BY DEF ActMove
<1>2. act' \in [Actors -> Acts] /\ act'[c].step = step /\ act'[c].token = token
      /\ \A d \in Actors \ {c} : act'[d] = act[d]
  BY <1>1 DEF Puts
<1> QED BY <1>1, <1>2 DEF ActsOK

LEMMA ValidIsNumbered ==
  ASSUME ServerOK, NEW token \in MaybeToken, Valid(token)
  PROVE  token \in Tokens /\ token.number = current[token.session] /\ IsOpen(token.session)
<1>1. token.session # NoSession BY DEF Valid, IsOpen, ServerOK, NoSession
<1> QED BY <1>1, SomeToken DEF Valid

LEMMA AcceptedIsToken ==
  ASSUME ServerOK, NEW token \in MaybeToken, Accepted(token)
  PROVE  token \in Tokens
<1>1. token.session # NoSession BY DEF Accepted, IsOpen, ServerOK, NoSession
<1> QED BY <1>1, SomeToken

LEMMA ActsStep ==
  ASSUME ServerOK, StoresOK, ActsOK, [SessionNext]_sessionVars
  PROVE  ActsOK'
<1> USE DEF Doing
<1>0. \A c \in Actors : act[c] \in Acts /\ act[c].token \in MaybeToken
  BY DEF ActsOK, Acts
<1>1. access \in MaybeToken /\ refresh \in MaybeToken /\ NoToken \in MaybeToken
  BY TokenFacts DEF StoresOK
<1>2. ASSUME NEW c \in Actors, NEW step \in Steps \ Carrying, Does(c, step) PROVE ActsOK'
  <2>1. Puts(c, step, act[c].token) BY <1>2, DoesPuts
  <2>2. ActMove(c) BY <1>0, <1>2, <2>1 DEF ActMove
  <2> QED BY <2>2, MovesAreTyped
<1>3. ASSUME NEW c \in Actors, NEW step \in Steps, Does(c, step), act[c].step \in Carrying PROVE ActsOK'
  <2>1. act[c].token # NoToken BY <1>3 DEF ActsOK
  <2>2. Puts(c, step, act[c].token) BY <1>3, DoesPuts
  <2>3. ActMove(c) BY <1>0, <1>3, <2>1, <2>2 DEF ActMove
  <2> QED BY <2>3, MovesAreTyped
<1>4. ASSUME NEW c \in Actors, NEW step \in Steps, NEW token \in MaybeToken, token # NoToken,
             act' = [act EXCEPT ![c].step = step, ![c].token = token]
      PROVE  ActsOK'
  BY <1>4, TokenPuts, MovesAreTyped DEF ActMove
<1>5. ASSUME NEW c \in Actors, Rests(c) PROVE ActsOK'
  <2>1. "idle" \in Steps \ Carrying BY DEF Steps, Carrying
  <2> QED BY <1>1, <1>5, <2>1, RestsPuts, MovesAreTyped DEF ActMove
<1>s. /\ {"compare", "lock", "load", "retry", "invalidate"} \subseteq Steps \ Carrying
      /\ {"request", "again", "sent", "answered", "stored", "accepted"} = Carrying
      /\ Carrying \subseteq Steps
  BY DEF Steps, Carrying
<1>6. ASSUME NEW c \in Actors, NEW kind \in {"sync", "profile"}, CallApi(c, kind) PROVE ActsOK'
  <2>1. Puts(c, "request", access) /\ access # NoToken
    BY <1>1, <1>6, CallPuts DEF CallApi
  <2> QED BY <1>1, <1>s, <2>1, MovesAreTyped DEF ActMove
<1>7. ASSUME NEW c \in Actors, AnswerCall(c) PROVE ActsOK'
  <2>1. act[c].step \in Carrying BY <1>7 DEF AnswerCall, Carrying
  <2>2. CASE Does(c, "accepted") BY <1>3, <1>s, <2>1, <2>2
  <2>3. CASE Does(c, "compare") BY <1>2, <1>s, <2>3
  <2>4. CASE Rests(c) BY <1>5, <2>4
  <2> QED BY <1>7, <2>2, <2>3, <2>4 DEF AnswerCall
<1>8. ASSUME NEW c \in Actors, KeepAnswer(c) PROVE ActsOK'
  BY <1>5, <1>8 DEF KeepAnswer
<1>9. ASSUME NEW c \in Actors, CompareToken(c) PROVE ActsOK'
  <2>1. CASE Does(c, "lock") BY <1>2, <1>s, <2>1
  <2>2. CASE access \notin {act[c].token, NoToken}
             /\ act' = [act EXCEPT ![c].step = "again", ![c].token = access]
    BY <1>1, <1>4, <1>s, <2>2
  <2> QED BY <1>9, <2>1, <2>2 DEF CompareToken
<1>10. ASSUME NEW c \in Actors, LockRefresh(c) PROVE ActsOK'
  BY <1>2, <1>s, <1>10 DEF LockRefresh
<1>11. ASSUME NEW c \in Actors, LoadRefresh(c) PROVE ActsOK'
  <2>1. CASE Rests(c) BY <1>5, <2>1
  <2>2. CASE refresh # NoToken
             /\ act' = [act EXCEPT ![c].step = "sent", ![c].token = refresh]
    BY <1>1, <1>4, <1>s, <2>2
  <2> QED BY <1>11, <2>1, <2>2 DEF LoadRefresh
<1>12. ASSUME NEW c \in Actors, RotateToken(c) PROVE ActsOK'
  <2>1. CASE Rests(c) BY <1>5, <2>1
  <2>2. CASE Does(c, "invalidate") BY <1>2, <1>s, <2>2
  <2>3. CASE /\ Valid(act[c].token) /\ current[act[c].token.session] < MaxRotations
             /\ act' = [act EXCEPT ![c].step = "answered", ![c].token.number = @ + 1]
    <3>1. act[c].token \in Tokens /\ act[c].token.number < MaxRotations
      BY <1>0, <2>3, ValidIsNumbered
    <3>2. Puts(c, "answered", Successor(act[c].token)) /\ Successor(act[c].token) \in Tokens
      BY <2>3, <3>1, NumberPuts
    <3>3. Successor(act[c].token) \in MaybeToken /\ Successor(act[c].token) # NoToken
      BY <3>2, TokenFacts DEF MaybeToken
    <3> QED BY <1>s, <3>2, <3>3, MovesAreTyped DEF ActMove
  <2> QED BY <1>12, <2>1, <2>2, <2>3 DEF RotateToken
<1>13. ASSUME NEW c \in Actors, StoreAccess(c) PROVE ActsOK'
  BY <1>3, <1>s, <1>13 DEF StoreAccess
<1>14. ASSUME NEW c \in Actors, StoreRefresh(c) PROVE ActsOK'
  BY <1>2, <1>5, <1>s, <1>14 DEF StoreRefresh
<1>15. ASSUME NEW c \in Actors, RetryCall(c) PROVE ActsOK'
  <2>1. CASE Rests(c) BY <1>5, <2>1
  <2>2. CASE access # NoToken
             /\ act' = [act EXCEPT ![c].step = "again", ![c].token = access]
    BY <1>1, <1>4, <1>s, <2>2
  <2> QED BY <1>15, <2>1, <2>2 DEF RetryCall
<1>16. CASE WakeUp BY <1>2, <1>s, <1>16 DEF WakeUp, Actors
<1>17. CASE InvalidateSession BY <1>5, <1>17 DEF InvalidateSession, Actors
<1>18. CASE RestartSession
  <2>1. Idle \in Acts /\ Idle.step = "idle" BY DEF Idle, Acts, Steps, MaybeToken
  <2>2. act' = [c \in Actors |-> Idle] BY <1>18 DEF RestartSession
  <2> HIDE DEF Idle
  <2> QED BY <2>1, <2>2 DEF ActsOK, Carrying
<1>19. CASE UNCHANGED act BY <1>19 DEF ActsOK
<1> QED
  BY <1>6, <1>7, <1>8, <1>9, <1>10, <1>11, <1>12, <1>13, <1>14, <1>15, <1>16, <1>17, <1>18, <1>19
     DEF SessionNext, sessionVars, Logout, ClearAtLogout, ExchangeCode, SignIn, ExpireAccess

LEMMA ServerStep ==
  ASSUME ServerOK, ActsOK, StoresOK, [SessionNext]_sessionVars
  PROVE  ServerOK'
<1>1. ASSUME NEW c \in Actors, RotateToken(c) PROVE ServerOK'
  <2>1. UNCHANGED <<opened, closed, accepts>> BY <1>1 DEF RotateToken
  <2>2. current' = current \/ \E s : current[s] < MaxRotations /\ Valid(act[c].token)
          /\ s = act[c].token.session /\ current' = [current EXCEPT ![s] = @ + 1]
    BY <1>1 DEF RotateToken
  <2>3. act[c].token \in MaybeToken BY DEF ActsOK, Acts
  <2>4. Valid(act[c].token) => act[c].token.session \in Sessions
    BY <2>3, ValidIsNumbered, TokenFacts
  <2>5. current' \in [Sessions -> 0 .. MaxRotations] BY <2>2, <2>4 DEF ServerOK
  <2> QED BY <2>1, <2>5 DEF ServerOK
<1>2. CASE Logout
  <2>1. UNCHANGED <<opened, current, accepts>> BY <1>2 DEF Logout
  <2>2. closed' = closed \/ (Accepted(access) /\ closed' = closed \cup {access.session})
    BY <1>2 DEF Logout
  <2>3. Accepted(access) => access.session \in Sessions
    BY AcceptedIsToken, TokenFacts DEF StoresOK
  <2> QED BY <2>1, <2>2, <2>3 DEF ServerOK
<1>3. CASE ExchangeCode BY <1>3 DEF ExchangeCode, ServerOK
<1>4. ASSUME NEW s \in Sessions, ExpireAccess(s) PROVE ServerOK'
  BY <1>4 DEF ExpireAccess, ServerOK
<1>5. CASE UNCHANGED serverVars BY <1>5 DEF ServerOK
<1> QED
  BY <1>1, <1>2, <1>3, <1>4, <1>5
     DEF SessionNext, sessionVars, CallApi, AnswerCall, KeepAnswer, CompareToken, LockRefresh,
     LoadRefresh, StoreAccess, StoreRefresh, RetryCall, WakeUp, InvalidateSession,
     ClearAtLogout, SignIn, RestartSession

LEMMA StoresStep ==
  ASSUME ServerOK, StoresOK, ActsOK, UserOK, [SessionNext]_sessionVars
  PROVE  StoresOK'
<1> USE TokenFacts, AuthFacts
<1>0. \A c \in Actors : act[c].token \in MaybeToken BY DEF ActsOK, Acts
<1>1. ASSUME NEW c \in Actors, KeepAnswer(c) PROVE StoresOK'
  <2>0. act[c].token # NoToken
    BY <1>1 DEF KeepAnswer, ActsOK, Carrying, Doing
  <2>1. act[c].token.session \in Sessions BY <1>0, <2>0, SomeToken
  <2>2. UNCHANGED <<access, refresh>> BY <1>1 DEF KeepAnswer
  <2>3. CASE UNCHANGED <<auth, authFile, syncToken>> BY <2>2, <2>3 DEF StoresOK
  <2>4. CASE syncToken' = act[c].token.session /\ UNCHANGED <<auth, authFile>>
    BY <2>1, <2>2, <2>4 DEF StoresOK
  <2>5. CASE /\ auth # NoAuth /\ UNCHANGED syncToken
             /\ auth' = [auth EXCEPT !.profile = act[c].token.session]
             /\ authFile' = auth'
    <3>1. auth' = [session |-> auth.session, profile |-> act[c].token.session]
      BY <2>5 DEF StoresOK, Auths
    <3>2. auth' \in Auths BY <2>1, <2>5, <3>1 DEF StoresOK
    <3> QED BY <2>2, <2>5, <3>2 DEF StoresOK
  <2> QED BY <1>1, <2>3, <2>4, <2>5 DEF KeepAnswer
<1>2. ASSUME NEW c \in Actors, StoreAccess(c) \/ StoreRefresh(c) PROVE StoresOK'
  BY <1>0, <1>2 DEF StoreAccess, StoreRefresh, StoresOK
<1>3. ASSUME NEW others, ClearAuth(others) PROVE StoresOK'
  BY <1>3 DEF ClearAuth, StoresOK
<1>4. CASE SignIn
  <2>1. user.token \in MaybeToken BY DEF UserOK
  <2>2. user.step = "filed" => user.token.session \in Sessions BY <2>1, SomeToken DEF UserOK
  <2>3. UNCHANGED syncToken BY <1>4 DEF SignIn
  <2>4. CASE access' = user.token /\ UNCHANGED <<refresh, authFile, auth>>
    BY <2>1, <2>3, <2>4 DEF StoresOK
  <2>5. CASE refresh' = user.token /\ UNCHANGED <<access, authFile, auth>>
    BY <2>1, <2>3, <2>5 DEF StoresOK
  <2>6. CASE /\ user.step = "filed" /\ UNCHANGED <<access, refresh>>
             /\ authFile' = [session |-> user.token.session, profile |-> user.token.session]
             /\ auth' = [session |-> user.token.session, profile |-> user.token.session]
    BY <2>2, <2>3, <2>6 DEF StoresOK
  <2> QED BY <1>4, <2>4, <2>5, <2>6 DEF SignIn
<1>5. CASE RestartSession BY <1>5 DEF RestartSession, StoresOK
<1>6. CASE UNCHANGED <<tokenFiles, auth>> BY <1>6 DEF StoresOK
<1> QED
  BY <1>1, <1>2, <1>3, <1>4, <1>5, <1>6
     DEF SessionNext, sessionVars, CallApi, AnswerCall, CompareToken, LockRefresh, LoadRefresh,
     RotateToken, RetryCall, WakeUp, InvalidateSession, Logout, ClearAtLogout, ExchangeCode,
     ExpireAccess

LEMMA UserStep ==
  ASSUME ServerOK, StoresOK, UserOK, [SessionNext]_sessionVars
  PROVE  UserOK'
<1> USE TokenFacts
<1>1. CASE Logout
  <2>1. user' = [step |-> "leaving", token |-> refresh] BY <1>1 DEF Logout
  <2> QED BY <2>1 DEF UserOK, StoresOK
<1>2. CASE ExchangeCode
  <2>1. user' = [step |-> "exchanged", token |-> [session |-> opened + 1, number |-> 0]]
        /\ opened < MaxSessions
    BY <1>2 DEF ExchangeCode
  <2>2. [session |-> opened + 1, number |-> 0] \in Tokens
    BY <2>1 DEF ServerOK, Tokens, Sessions
  <2>3. [session |-> opened + 1, number |-> 0] \in MaybeToken BY <2>2 DEF MaybeToken
  <2> QED BY <2>1, <2>2, <2>3 DEF UserOK
<1>3. CASE SignIn
  <2>1. CASE user' = [user EXCEPT !.step = "kept"] /\ user.step = "exchanged"
    BY <2>1 DEF UserOK
  <2>2. CASE user' = [user EXCEPT !.step = "filed"] /\ user.step = "kept"
    BY <2>2 DEF UserOK
  <2>3. CASE user' = Nowhere BY <2>3 DEF UserOK, Nowhere
  <2> QED BY <1>3, <2>1, <2>2, <2>3 DEF SignIn
<1>4. CASE user' = Nowhere BY <1>4 DEF UserOK, Nowhere
<1>5. CASE UNCHANGED user BY <1>5 DEF UserOK
<1> QED
  BY <1>1, <1>2, <1>3, <1>4, <1>5
     DEF SessionNext, sessionVars, CallApi, AnswerCall, KeepAnswer, CompareToken, LockRefresh,
     LoadRefresh, RotateToken, StoreAccess, StoreRefresh, RetryCall, WakeUp, InvalidateSession,
     ClearAtLogout, ExpireAccess, RestartSession

LEMMA CountsStep ==
  ASSUME CountsOK, [SessionNext]_sessionVars
  PROVE  CountsOK' /\ flaws \subseteq flaws'
<1>1. UNCHANGED flaws \/ \E on \in BOOLEAN, name \in {"inFlight", "lost", "crashed"} : Flaw(on, name)
  <2>1. ASSUME NEW c \in Actors, RotateToken(c)
        PROVE  UNCHANGED flaws \/ Flaw(TRUE, "lost")
    BY <2>1 DEF RotateToken
  <2>2. ASSUME NEW on, NEW name \in {"inFlight", "lost", "crashed"}, Flaw(on, name)
        PROVE  UNCHANGED flaws \/ Flaw(TRUE, name)
    BY <2>2 DEF Flaw
  <2>3. CASE InvalidateSession \/ Logout \/ ClearAtLogout
    <3>1. \E on : Flaw(on, "inFlight")
      BY <2>3 DEF InvalidateSession, Logout, ClearAtLogout, ClearAuth
    <3> QED BY <2>2, <3>1
  <2>4. CASE RestartSession
    <3>1. \E on : Flaw(on, "crashed") BY <2>4 DEF RestartSession
    <3> QED BY <2>2, <3>1
  <2>5. CASE UNCHANGED flaws BY <2>5
  <2> QED
    BY <2>1, <2>3, <2>4, <2>5
       DEF SessionNext, sessionVars, CallApi, AnswerCall, KeepAnswer, CompareToken, LockRefresh,
       LoadRefresh, StoreAccess, StoreRefresh, RetryCall, WakeUp, ExchangeCode, SignIn,
       ExpireAccess
<1>2. UNCHANGED troubles \/ Trouble
  <2>1. ASSUME NEW c \in Actors, RotateToken(c) PROVE UNCHANGED troubles \/ Trouble
    BY <2>1 DEF RotateToken
  <2> QED
    BY <2>1
       DEF SessionNext, sessionVars, CallApi, AnswerCall, KeepAnswer, CompareToken, LockRefresh,
       LoadRefresh, StoreAccess, StoreRefresh, RetryCall, WakeUp, InvalidateSession, Logout,
       ClearAtLogout, ExchangeCode, SignIn, ExpireAccess, RestartSession
<1>3. flaws \subseteq flaws' /\ flaws' \subseteq {"inFlight", "lost", "crashed"}
  BY <1>1 DEF Flaw, CountsOK
<1>4. troubles' \in 0 .. MaxTroubles BY <1>2 DEF Trouble, CountsOK
<1> QED BY <1>3, <1>4 DEF CountsOK

LEMMA LockStep ==
  ASSUME LockOK, [SessionNext]_sessionVars PROVE LockOK'
<1>1. ASSUME NEW c \in Actors, LockRefresh(c) PROVE LockOK' BY <1>1 DEF LockRefresh, LockOK
<1>2. CASE refreshLock' = Nothing BY <1>2 DEF LockOK
<1>3. CASE UNCHANGED refreshLock BY <1>3 DEF LockOK
<1> QED
  BY <1>1, <1>2, <1>3
     DEF SessionNext, sessionVars, CallApi, AnswerCall, KeepAnswer, CompareToken,
     LoadRefresh, RotateToken, StoreAccess, StoreRefresh, RetryCall, WakeUp, InvalidateSession,
     Logout, ClearAtLogout, ExchangeCode, SignIn, ExpireAccess, RestartSession

\* Every variable of CloudSession keeps to its type.
THEOREM SessionTypes == SessionSpec => []SessionTypeOK
<1>1. ASSUME SessionInit PROVE SessionTypeOK
  <2>1. ServerOK BY <1>1 DEF SessionInit, ServerOK
  <2>2. StoresOK BY <1>1, TokenFacts, AuthFacts DEF SessionInit, StoresOK
  <2>3. ActsOK
    <3>1. Idle \in Acts /\ Idle.step = "idle" BY DEF Idle, Acts, Steps, MaybeToken
    <3>2. act = [c \in Actors |-> Idle] BY <1>1 DEF SessionInit
    <3> HIDE DEF Idle
    <3> QED BY <3>1, <3>2 DEF ActsOK, Carrying
  <2>4. LockOK BY <1>1 DEF SessionInit, LockOK
  <2>5. UserOK BY <1>1, TokenFacts DEF SessionInit, UserOK, Nowhere
  <2>6. CountsOK
    <3>1. troubles = 0 /\ flaws = {} BY <1>1 DEF SessionInit
    <3>2. troubles \in 0 .. MaxTroubles BY <3>1
    <3> QED BY <3>1, <3>2 DEF CountsOK
  <2> QED BY <2>1, <2>2, <2>3, <2>4, <2>5, <2>6, TypeParts
<1>2. SessionTypeOK /\ [SessionNext]_sessionVars => SessionTypeOK'
  BY TypeParts, ServerStep, StoresStep, ActsStep, LockStep, UserStep, CountsStep
     DEF SessionTypeOK, ServerOK, StoresOK, ActsOK, LockOK, UserOK, CountsOK, Acts, Steps
<1> QED BY <1>1, <1>2, PTL DEF SessionSpec

(***************************************************************************)
(* Whose tokens they are: the session that is signed in to, or being       *)
(* signed in to, owns every token in a file or in an actor's hands.        *)
(***************************************************************************)
Home == IF auth # NoAuth THEN auth.session
        ELSE IF user.step \in {"kept", "filed"} THEN user.token.session ELSE NoSession
Clean == flaws \cap {"inFlight", "crashed"} = {}
AtHome ==
  /\ access.session = Home
  /\ refresh.session \in {Home, NoSession}
  /\ syncToken \in {Home, NoSession}
  /\ auth.profile = auth.session
  /\ \A c \in Actors : act[c].step \in Carrying => act[c].token.session = Home
HomeInv ==
  /\ authFile = auth
  /\ user.step \in {"exchanged", "kept", "filed"} => auth = NoAuth
  /\ Clean => AtHome

\* With no session at home nobody has a token in hand.
LEMMA NobodyCarries ==
  ASSUME ActsOK, AtHome, Home = NoSession
  PROVE  \A c \in Actors : act[c].step \notin Carrying
<1>1. SUFFICES ASSUME NEW c \in Actors, act[c].step \in Carrying PROVE FALSE OBVIOUS
<1>2. act[c].token \in MaybeToken /\ act[c].token # NoToken BY <1>1 DEF ActsOK, Acts
<1>3. act[c].token.session # NoSession BY <1>2, SomeToken
<1> QED BY <1>1, <1>3 DEF AtHome

\* An actor moves and the session at home stays.
LEMMA HomeMoves ==
  ASSUME HomeInv, Clean' => Clean, NEW c \in Actors, NEW step, NEW token, Puts(c, step, token),
         UNCHANGED <<auth, authFile, user>>,
         Clean /\ AtHome =>
           /\ access'.session = Home
           /\ refresh'.session \in {Home, NoSession}
           /\ syncToken' \in {Home, NoSession}
           /\ step \in Carrying => token.session = Home
  PROVE  HomeInv'
<1>1. Home' = Home BY DEF Home
<1>2. act'[c].step = step /\ act'[c].token = token /\ \A d \in Actors \ {c} : act'[d] = act[d]
  BY DEF Puts
<1>3. ASSUME Clean' PROVE AtHome'
  <2>1. Clean /\ AtHome BY <1>3 DEF HomeInv
  <2>2. /\ access'.session = Home /\ refresh'.session \in {Home, NoSession}
        /\ syncToken' \in {Home, NoSession} /\ (step \in Carrying => token.session = Home)
    BY <2>1
  <2>3. \A d \in Actors : act'[d].step \in Carrying => act'[d].token.session = Home'
    BY <1>1, <1>2, <2>1, <2>2 DEF AtHome
  <2>4. auth'.profile = auth'.session BY <2>1 DEF AtHome
  <2> QED BY <1>1, <2>2, <2>3, <2>4 DEF AtHome
<1> QED BY <1>3 DEF HomeInv

LEMMA HomeStep ==
  ASSUME ServerOK, StoresOK, ActsOK, UserOK, CountsOK, HomeInv, [SessionNext]_sessionVars
  PROVE  HomeInv'
<1> USE DEF Doing
<1>c. Clean' => Clean BY CountsStep DEF Clean
<1>s. /\ {"idle", "compare", "lock", "load", "retry", "invalidate"} \subseteq Steps \ Carrying
      /\ {"request", "again", "sent", "answered", "stored", "accepted"} = Carrying
      /\ Carrying \subseteq Steps
  BY DEF Steps, Carrying
<1>t. \A c \in Actors : act[c].token \in MaybeToken BY DEF ActsOK, Acts
<1>f. access \in MaybeToken /\ refresh \in MaybeToken BY DEF StoresOK
\* A step with nothing in hand, or with what was in hand already.
<1>1. ASSUME NEW c \in Actors, NEW step \in Steps,
             Does(c, step), step \notin Carrying \/ act[c].step \in Carrying,
             UNCHANGED <<auth, authFile, user, access, refresh, syncToken>>
      PROVE  HomeInv'
  <2>1. Puts(c, step, act[c].token) BY <1>1, DoesPuts
  <2>2. AtHome => (step \in Carrying => act[c].token.session = Home) BY <1>1 DEF AtHome
  <2> QED BY <1>c, <1>1, <2>1, <2>2, HomeMoves DEF AtHome
<1>2. ASSUME NEW c \in Actors, Rests(c),
             UNCHANGED <<auth, authFile, user, access, refresh>>,
             AtHome => syncToken' \in {Home, NoSession}
      PROVE  HomeInv'
  <2>1. Puts(c, "idle", NoToken) BY <1>2, RestsPuts
  <2>2. "idle" \notin Carrying BY <1>s
  <2> QED BY <1>c, <1>2, <2>1, <2>2, HomeMoves DEF AtHome
<1>3. ASSUME NEW c \in Actors, NEW step \in Steps, NEW token \in MaybeToken,
             act' = [act EXCEPT ![c].step = step, ![c].token = token],
             AtHome => token.session = Home,
             UNCHANGED <<auth, authFile, user, access, refresh, syncToken>>
      PROVE  HomeInv'
  <2>1. Puts(c, step, token) BY <1>3, TokenPuts
  <2> QED BY <1>c, <1>3, <2>1, HomeMoves DEF AtHome
<1>4. ASSUME NEW c \in Actors, NEW kind \in {"sync", "profile"}, CallApi(c, kind) PROVE HomeInv'
  <2>1. Puts(c, "request", access) BY <1>f, <1>4, CallPuts DEF CallApi
  <2>2. UNCHANGED <<auth, authFile, user, access, refresh, syncToken>> BY <1>4 DEF CallApi
  <2> QED BY <1>c, <2>1, <2>2, HomeMoves DEF AtHome
<1>5. ASSUME NEW c \in Actors, AnswerCall(c) PROVE HomeInv'
  <2>0. UNCHANGED <<auth, authFile, user, access, refresh, syncToken>>
        /\ act[c].step \in Carrying
    BY <1>s, <1>5 DEF AnswerCall
  <2>1. CASE Does(c, "accepted") BY <1>1, <1>s, <2>0, <2>1
  <2>2. CASE Does(c, "compare") BY <1>1, <1>s, <2>0, <2>2
  <2>3. CASE Rests(c) BY <1>2, <2>0, <2>3 DEF AtHome
  <2> QED BY <1>5, <2>1, <2>2, <2>3 DEF AnswerCall
<1>6. ASSUME NEW c \in Actors, KeepAnswer(c) PROVE HomeInv'
  <2>1. Rests(c) /\ UNCHANGED <<user, access, refresh>> /\ act[c].step \in Carrying
    BY <1>s, <1>6 DEF KeepAnswer
  <2>2. AtHome => act[c].token.session = Home BY <2>1 DEF AtHome
  <2>3. CASE syncToken' = act[c].token.session /\ UNCHANGED <<auth, authFile>>
    BY <1>2, <2>1, <2>2, <2>3
  <2>4. CASE UNCHANGED <<auth, authFile, syncToken>>
    BY <1>2, <2>1, <2>4 DEF AtHome
  <2>5. CASE /\ auth # NoAuth /\ UNCHANGED syncToken
             /\ auth' = [auth EXCEPT !.profile = act[c].token.session]
             /\ authFile' = auth'
    <3>1. auth \in Auths BY DEF StoresOK
    <3>2. auth.session \in Sessions /\ auth = [session |-> auth.session, profile |-> auth.profile]
      BY <2>5, <3>1, AuthFacts
    <3>3. auth'.session = auth.session /\ auth'.profile = act[c].token.session
      BY <2>5, <3>2
    <3>4. auth' # NoAuth BY <3>2, <3>3, TokenFacts DEF NoAuth
    <3>5. Home' = Home /\ Home = auth.session BY <2>5, <3>3, <3>4 DEF Home
    <3>6. Puts(c, "idle", NoToken) BY <2>1, RestsPuts
    <3>7. \A d \in Actors : act'[d].step \in Carrying => act'[d] = act[d]
      BY <1>s, <3>6 DEF Puts
    <3>8. ASSUME Clean' PROVE AtHome'
      <4>1. AtHome BY <1>c, <3>8 DEF HomeInv
      <4> QED BY <2>1, <2>2, <2>5, <3>3, <3>5, <3>7, <4>1 DEF AtHome
    <3>9. user.step \notin {"exchanged", "kept", "filed"} BY <2>5 DEF HomeInv
    <3> QED BY <2>1, <2>5, <3>8, <3>9 DEF HomeInv
  <2> QED BY <1>6, <2>3, <2>4, <2>5 DEF KeepAnswer
<1>7. ASSUME NEW c \in Actors, CompareToken(c) PROVE HomeInv'
  <2>0. UNCHANGED <<auth, authFile, user, access, refresh, syncToken>>
    BY <1>7 DEF CompareToken
  <2>1. CASE Does(c, "lock") BY <1>1, <1>s, <2>0, <2>1
  <2>2. CASE act' = [act EXCEPT ![c].step = "again", ![c].token = access]
    BY <1>3, <1>f, <1>s, <2>0, <2>2 DEF AtHome
  <2> QED BY <1>7, <2>1, <2>2 DEF CompareToken
<1>8. ASSUME NEW c \in Actors, LockRefresh(c) PROVE HomeInv'
  BY <1>1, <1>s, <1>8 DEF LockRefresh
<1>9. ASSUME NEW c \in Actors, LoadRefresh(c) PROVE HomeInv'
  <2>0. UNCHANGED <<auth, authFile, user, access, refresh, syncToken>>
    BY <1>9 DEF LoadRefresh
  <2>1. CASE Rests(c) BY <1>2, <2>0, <2>1 DEF AtHome
  <2>2. CASE refresh # NoToken
             /\ act' = [act EXCEPT ![c].step = "sent", ![c].token = refresh]
    <3>1. refresh.session # NoSession BY <1>f, <2>2, SomeToken
    <3> QED BY <1>3, <1>f, <1>s, <2>0, <2>2, <3>1 DEF AtHome
  <2> QED BY <1>9, <2>1, <2>2 DEF LoadRefresh
<1>10. ASSUME NEW c \in Actors, RotateToken(c) PROVE HomeInv'
  <2>0. UNCHANGED <<auth, authFile, user, access, refresh, syncToken>> /\ act[c].step \in Carrying
    BY <1>s, <1>10 DEF RotateToken
  <2>1. CASE Rests(c) BY <1>2, <2>0, <2>1 DEF AtHome
  <2>2. CASE Does(c, "invalidate") BY <1>1, <1>s, <2>0, <2>2
  <2>3. CASE /\ Valid(act[c].token) /\ current[act[c].token.session] < MaxRotations
             /\ act' = [act EXCEPT ![c].step = "answered", ![c].token.number = @ + 1]
    <3>1. act[c].token \in Tokens /\ act[c].token.number < MaxRotations
      BY <1>t, <2>3, ValidIsNumbered
    <3>2. Puts(c, "answered", Successor(act[c].token)) BY <2>3, <3>1, NumberPuts
    <3>3. Successor(act[c].token).session = act[c].token.session BY DEF Successor
    <3>4. AtHome => Successor(act[c].token).session = Home BY <2>0, <3>3 DEF AtHome
    <3> QED BY <1>c, <2>0, <3>2, <3>4, HomeMoves DEF AtHome
  <2> QED BY <1>10, <2>1, <2>2, <2>3 DEF RotateToken
<1>11. ASSUME NEW c \in Actors, StoreAccess(c) PROVE HomeInv'
  <2>1. /\ Does(c, "stored") /\ act[c].step \in Carrying /\ access' = act[c].token
        /\ UNCHANGED <<auth, authFile, user, refresh, syncToken>>
    BY <1>s, <1>11 DEF StoreAccess
  <2>2. Puts(c, "stored", act[c].token) BY <1>s, <2>1, DoesPuts
  <2>3. AtHome => act[c].token.session = Home BY <2>1 DEF AtHome
  <2> QED BY <1>c, <2>1, <2>2, <2>3, HomeMoves DEF AtHome
<1>12. ASSUME NEW c \in Actors, StoreRefresh(c) PROVE HomeInv'
  <2>1. /\ act[c].step \in Carrying /\ refresh' = act[c].token
        /\ UNCHANGED <<auth, authFile, user, access, syncToken>>
    BY <1>s, <1>12 DEF StoreRefresh
  <2>2. AtHome => act[c].token.session = Home BY <2>1 DEF AtHome
  <2>3. \E step \in Steps \ Carrying, token \in MaybeToken : Puts(c, step, token)
    BY <1>s, <1>t, <1>12, DoesPuts, RestsPuts, TokenFacts DEF StoreRefresh
  <2> QED BY <1>c, <2>1, <2>2, <2>3, HomeMoves DEF AtHome
<1>13. ASSUME NEW c \in Actors, RetryCall(c) PROVE HomeInv'
  <2>0. UNCHANGED <<auth, authFile, user, access, refresh, syncToken>>
    BY <1>13 DEF RetryCall
  <2>1. CASE Rests(c) BY <1>2, <2>0, <2>1 DEF AtHome
  <2>2. CASE act' = [act EXCEPT ![c].step = "again", ![c].token = access]
    BY <1>3, <1>f, <1>s, <2>0, <2>2 DEF AtHome
  <2> QED BY <1>13, <2>1, <2>2 DEF RetryCall
<1>14. CASE WakeUp
  <2>1. Loop \in Actors BY DEF Actors
  <2> QED BY <1>1, <1>s, <1>14, <2>1 DEF WakeUp
<1> HIDE DEF Doing
\* Signing out: without the flaw, nobody has anything in hand.
<1>15. ASSUME NEW others, ClearAuth(others), Clean',
              \A c \in Actors : (c \in others /\ act'[c] = act[c]) \/ act'[c].step \notin Carrying,
              user'.step \in {user.step, "none"}
       PROVE  HomeInv'
  <2>1. ~InFlight(others) /\ user.step \in {"none", "leaving"}
    <3>1. ~(InFlight(others) \/ user.step \notin {"none", "leaving"})
      BY <1>15 DEF ClearAuth, Flaw, Clean
    <3> QED BY <3>1
  <2>2. \A c \in Actors : act'[c].step \notin Carrying
    BY <1>s, <1>15, <2>1 DEF InFlight
  <2>3. /\ auth' = NoAuth /\ authFile' = NoAuth /\ access' = NoToken /\ refresh' = NoToken
        /\ syncToken' = NoSession
    BY <1>15 DEF ClearAuth
  <2>4. Home' = NoSession BY <1>15, <2>1, <2>3 DEF Home
  <2>5. AtHome' BY <2>2, <2>3, <2>4, TokenFacts, AuthFacts DEF AtHome
  <2> QED BY <2>3, <2>5 DEF HomeInv
\* With a flaw there is less to show.
<1>16. ASSUME ~Clean', UNCHANGED <<auth, authFile>> \/ (auth' = NoAuth /\ authFile' = NoAuth),
              user' = user \/ user'.step = "none"
       PROVE  HomeInv'
  BY <1>16 DEF HomeInv
<1>17. CASE InvalidateSession
  <2>1. /\ ClearAuth(Clients) /\ UNCHANGED user /\ auth' = NoAuth /\ authFile' = NoAuth
        /\ Loop \in Actors /\ Rests(Loop)
    BY <1>17 DEF InvalidateSession, ClearAuth, Actors
  <2>2. Puts(Loop, "idle", NoToken) BY <2>1, RestsPuts
  <2>3. \A c \in Actors : (c \in Clients /\ act'[c] = act[c]) \/ act'[c].step \notin Carrying
    BY <1>s, <2>2 DEF Puts, Actors
  <2>4. CASE Clean' BY <1>15, <2>1, <2>3, <2>4
  <2> QED BY <1>16, <2>1, <2>4
<1>18. CASE ClearAtLogout
  <2>1. /\ ClearAuth(Actors) /\ user' = Nowhere /\ auth' = NoAuth /\ authFile' = NoAuth
        /\ UNCHANGED act
    BY <1>18 DEF ClearAtLogout, ClearAuth
  <2>2. user'.step = "none" BY <2>1 DEF Nowhere
  <2>3. \A c \in Actors : act'[c] = act[c] BY <2>1
  <2>4. CASE Clean' BY <1>15, <2>1, <2>2, <2>3, <2>4
  <2> QED BY <1>16, <2>1, <2>2, <2>4
<1>19. CASE Logout
  <2>1. /\ auth # NoAuth /\ user' = [step |-> "leaving", token |-> refresh]
        /\ UNCHANGED <<auth, authFile, access, refresh, syncToken, act>>
    BY <1>19 DEF Logout
  <2>2. Home' = Home BY <2>1 DEF Home
  <2>3. AtHome => AtHome' BY <2>1, <2>2 DEF AtHome
  <2> QED BY <1>c, <2>1, <2>3 DEF HomeInv
<1>20. CASE ExchangeCode
  <2>1. /\ auth = NoAuth /\ user.step = "none" /\ user'.step = "exchanged"
        /\ UNCHANGED <<auth, authFile, access, refresh, syncToken, act>>
    BY <1>20 DEF ExchangeCode
  <2>2. Home' = Home BY <2>1 DEF Home
  <2>3. AtHome => AtHome' BY <2>1, <2>2 DEF AtHome
  <2> QED BY <1>c, <2>1, <2>3 DEF HomeInv
<1>21. CASE SignIn
  <2>1. UNCHANGED <<syncToken, act>> BY <1>21 DEF SignIn
  <2>2. user.step \in {"exchanged", "kept", "filed"} => auth = NoAuth /\ authFile = NoAuth
    BY DEF HomeInv
  <2>3. CASE /\ user.step = "exchanged" /\ user' = [user EXCEPT !.step = "kept"]
             /\ access' = user.token /\ UNCHANGED <<refresh, authFile, auth>>
    <3>1. user'.step = "kept" /\ user'.token = user.token BY <2>3 DEF UserOK
    <3>2. Home = NoSession /\ Home' = user.token.session
      BY <2>2, <2>3, <3>1 DEF Home
    <3>3. ASSUME Clean' PROVE AtHome'
      <4>1. AtHome BY <1>c, <3>3 DEF HomeInv
      <4>2. \A c \in Actors : act[c].step \notin Carrying BY <3>2, <4>1, NobodyCarries
      <4> QED BY <2>1, <2>3, <3>2, <4>1, <4>2 DEF AtHome
    <3> QED BY <2>2, <2>3, <3>3 DEF HomeInv
  <2>4. CASE /\ user.step = "kept" /\ user' = [user EXCEPT !.step = "filed"]
             /\ refresh' = user.token /\ UNCHANGED <<access, authFile, auth>>
    <3>1. user'.step = "filed" /\ user'.token = user.token BY <2>4 DEF UserOK
    <3>2. Home = user.token.session /\ Home' = Home
      BY <2>2, <2>4, <3>1 DEF Home
    <3>3. AtHome => AtHome' BY <2>1, <2>4, <3>2 DEF AtHome
    <3> QED BY <1>c, <2>2, <2>4, <3>3 DEF HomeInv
  <2>5. CASE /\ user.step = "filed" /\ user' = Nowhere /\ UNCHANGED <<access, refresh>>
             /\ authFile' = [session |-> user.token.session, profile |-> user.token.session]
             /\ auth' = [session |-> user.token.session, profile |-> user.token.session]
    <3>1. user.token \in MaybeToken /\ user.token # NoToken BY <2>5 DEF UserOK
    <3>2. user.token.session # NoSession BY <3>1, SomeToken
    <3>3. auth' # NoAuth /\ auth'.session = user.token.session /\ auth'.profile = auth'.session
      BY <2>5, <3>2 DEF NoAuth
    <3>4. Home = user.token.session /\ Home' = Home BY <2>2, <2>5, <3>3 DEF Home
    <3>5. AtHome => AtHome' BY <2>1, <2>5, <3>3, <3>4 DEF AtHome
    <3>6. user'.step = "none" BY <2>5 DEF Nowhere
    <3> QED BY <1>c, <2>5, <3>5, <3>6 DEF HomeInv
  <2> QED BY <1>21, <2>3, <2>4, <2>5 DEF SignIn
<1>22. CASE RestartSession
  <2>1. /\ auth' = auth /\ authFile' = auth' /\ UNCHANGED <<access, refresh, syncToken>>
        /\ user' = Nowhere /\ act' = [c \in Actors |-> Idle]
    BY <1>22 DEF RestartSession, HomeInv
  <2>2. user'.step = "none" BY <2>1 DEF Nowhere
  <2>3. \A c \in Actors : act'[c].step \notin Carrying BY <2>1 DEF Idle, Carrying
  <2>4. ASSUME Clean' PROVE AtHome'
    <3>1. AtHome BY <1>c, <2>4 DEF HomeInv
    <3>2. user = Nowhere BY <1>22, <2>4 DEF RestartSession, Flaw, Clean
    <3>3. Home' = Home BY <2>1, <3>2 DEF Home
    <3> QED BY <2>1, <2>3, <3>1, <3>3 DEF AtHome
  <2> QED BY <2>1, <2>2, <2>4 DEF HomeInv
<1>23. CASE UNCHANGED <<auth, authFile, user, access, refresh, syncToken, act>>
  <2>1. Home' = Home BY <1>23 DEF Home
  <2>2. AtHome => AtHome' BY <1>23, <2>1 DEF AtHome
  <2> QED BY <1>c, <1>23, <2>2 DEF HomeInv
<1> QED
  BY <1>4, <1>5, <1>6, <1>7, <1>8, <1>9, <1>10, <1>11, <1>12, <1>13, <1>14, <1>17, <1>18,
     <1>19, <1>20, <1>21, <1>22, <1>23
     DEF SessionNext, sessionVars, ExpireAccess

LEMMA StartHome == ASSUME SessionInit PROVE HomeInv
<1>1. /\ access = NoToken /\ refresh = NoToken /\ syncToken = NoSession
      /\ authFile = NoAuth /\ auth = NoAuth /\ user.step = "none"
      /\ \A c \in Actors : act[c].step \notin Carrying
  BY DEF SessionInit, Nowhere, Idle, Carrying
<1>2. Home = NoSession BY <1>1 DEF Home
<1> QED BY <1>1, <1>2, TokenFacts, AuthFacts DEF HomeInv, AtHome

\* Signing out leaves no token behind, and what is signed in shows its own account, unless a
\* request was under way at a sign-out or the application went down amid one (clear_auth and
\* api_call_with_retry: nothing ties an answer to the session it was asked for).
THEOREM TokensStayHome == SessionSpec => []NothingLeftBehind
<1>1. SessionTypeOK /\ HomeInv /\ [SessionNext]_sessionVars => HomeInv'
  BY TypeParts, HomeStep
<1>2. ASSUME SessionTypeOK, HomeInv PROVE NothingLeftBehind
  <2>1. SUFFICES ASSUME user.step = "none", Clean
                 PROVE  /\ auth = NoAuth => /\ access = NoToken /\ refresh = NoToken
                                            /\ syncToken = NoSession
                        /\ auth # NoAuth => /\ auth.profile = auth.session
                                            /\ access.session = auth.session
                                            /\ syncToken \in {NoSession, auth.session}
    BY DEF NothingLeftBehind, Clean
  <2>2. AtHome BY <1>2, <2>1 DEF HomeInv
  <2>3. access \in MaybeToken /\ refresh \in MaybeToken BY <1>2, TypeParts DEF StoresOK
  <2>4. CASE auth = NoAuth
    <3>1. Home = NoSession BY <2>1, <2>4 DEF Home
    <3> QED BY <2>2, <2>3, <2>4, <3>1, SomeToken DEF AtHome
  <2>5. CASE auth # NoAuth
    <3>1. Home = auth.session BY <2>5 DEF Home
    <3> QED BY <2>2, <2>5, <3>1 DEF AtHome
  <2> QED BY <2>4, <2>5
<1> QED BY <1>1, <1>2, StartHome, SessionTypes, PTL DEF SessionSpec

(***************************************************************************)
(* The session can be renewed.                                             *)
(***************************************************************************)
Renewing == {"load", "sent", "answered", "stored"}
HoldInv == \A c \in Actors : act[c].step \in Renewing => refreshLock = c
FreshInv == \A s \in Sessions : s > opened => current[s] = 0 /\ s \notin closed

LEMMA HoldMoves ==
  ASSUME HoldInv, NEW c \in Actors, NEW step, NEW token, Puts(c, step, token),
         \/ UNCHANGED refreshLock /\ (step \in Renewing => act[c].step \in Renewing)
         \/ refreshLock = Nothing /\ refreshLock' = c
         \/ act[c].step \in Renewing /\ step \notin Renewing /\ refreshLock' = Nothing
  PROVE  HoldInv'
<1>1. act'[c].step = step /\ \A d \in Actors \ {c} : act'[d] = act[d] BY DEF Puts
<1>2. \A d \in Actors : d # Nothing BY DEF Actors
<1> QED BY <1>1, <1>2 DEF HoldInv

LEMMA HoldStep ==
  ASSUME ServerOK, StoresOK, ActsOK, HoldInv, [SessionNext]_sessionVars
  PROVE  HoldInv'
<1> USE DEF Doing, Renewing
<1>t. \A c \in Actors : act[c].token \in MaybeToken BY DEF ActsOK, Acts
<1>f. access \in MaybeToken /\ refresh \in MaybeToken BY DEF StoresOK
<1>1. ASSUME NEW c \in Actors, NEW step \in Steps, Does(c, step),
             \/ UNCHANGED refreshLock /\ (step \in Renewing => act[c].step \in Renewing)
             \/ refreshLock = Nothing /\ refreshLock' = c
             \/ act[c].step \in Renewing /\ step \notin Renewing /\ refreshLock' = Nothing
      PROVE  HoldInv'
  <2>1. Puts(c, step, act[c].token) BY <1>1, DoesPuts
  <2> QED BY <1>1, <2>1, HoldMoves
<1>2. ASSUME NEW c \in Actors, Rests(c),
             UNCHANGED refreshLock \/ (act[c].step \in Renewing /\ refreshLock' = Nothing)
      PROVE  HoldInv'
  <2>1. Puts(c, "idle", NoToken) BY <1>2, RestsPuts
  <2> QED BY <1>2, <2>1, HoldMoves
<1>3. ASSUME NEW c \in Actors, NEW kind \in {"sync", "profile"}, CallApi(c, kind) PROVE HoldInv'
  <2>1. Puts(c, "request", access) BY <1>f, <1>3, CallPuts DEF CallApi
  <2> QED BY <1>3, <2>1, HoldMoves DEF CallApi
<1>4. ASSUME NEW c \in Actors, AnswerCall(c) PROVE HoldInv'
  <2>1. UNCHANGED refreshLock BY <1>4 DEF AnswerCall
  <2>2. CASE Does(c, "accepted") BY <1>1, <2>1, <2>2 DEF Steps
  <2>3. CASE Does(c, "compare") BY <1>1, <2>1, <2>3 DEF Steps
  <2>4. CASE Rests(c) BY <1>2, <2>1, <2>4
  <2> QED BY <1>4, <2>2, <2>3, <2>4 DEF AnswerCall
<1>5. ASSUME NEW c \in Actors, KeepAnswer(c) PROVE HoldInv'
  BY <1>2, <1>5 DEF KeepAnswer
<1>6. ASSUME NEW c \in Actors, NEW token \in MaybeToken, UNCHANGED refreshLock,
             act' = [act EXCEPT ![c].step = "again", ![c].token = token]
      PROVE  HoldInv'
  <2>1. Puts(c, "again", token) BY <1>6, TokenPuts DEF Steps
  <2> QED BY <1>6, <2>1, HoldMoves
<1>7. ASSUME NEW c \in Actors, CompareToken(c) PROVE HoldInv'
  <2>1. UNCHANGED refreshLock BY <1>7 DEF CompareToken
  <2>2. CASE Does(c, "lock") BY <1>1, <2>1, <2>2 DEF Steps
  <2>3. CASE act' = [act EXCEPT ![c].step = "again", ![c].token = access]
    BY <1>6, <1>f, <2>1, <2>3
  <2> QED BY <1>7, <2>2, <2>3 DEF CompareToken
<1>8. ASSUME NEW c \in Actors, LockRefresh(c) PROVE HoldInv'
  BY <1>1, <1>8 DEF LockRefresh, Steps
<1>9. ASSUME NEW c \in Actors, LoadRefresh(c) PROVE HoldInv'
  <2>1. act[c].step = "load" BY <1>9 DEF LoadRefresh
  <2>2. CASE Rests(c) /\ refreshLock' = Nothing BY <1>2, <2>1, <2>2
  <2>3. CASE /\ act' = [act EXCEPT ![c].step = "sent", ![c].token = refresh]
             /\ UNCHANGED refreshLock
    <3>1. Puts(c, "sent", refresh) BY <1>f, <2>3, TokenPuts DEF Steps
    <3> QED BY <2>1, <2>3, <3>1, HoldMoves
  <2> QED BY <1>9, <2>2, <2>3 DEF LoadRefresh
<1>10. ASSUME NEW c \in Actors, RotateToken(c) PROVE HoldInv'
  <2>1. act[c].step = "sent" BY <1>10 DEF RotateToken
  <2>2. CASE Rests(c) /\ refreshLock' = Nothing BY <1>2, <2>1, <2>2
  <2>3. CASE Does(c, "invalidate") /\ refreshLock' = Nothing BY <1>1, <2>1, <2>3 DEF Steps
  <2>4. CASE /\ Valid(act[c].token) /\ current[act[c].token.session] < MaxRotations
             /\ act' = [act EXCEPT ![c].step = "answered", ![c].token.number = @ + 1]
             /\ UNCHANGED refreshLock
    <3>1. act[c].token \in Tokens /\ act[c].token.number < MaxRotations
      BY <1>t, <2>4, ValidIsNumbered
    <3>2. Puts(c, "answered", Successor(act[c].token)) BY <2>4, <3>1, NumberPuts
    <3> QED BY <2>1, <2>4, <3>2, HoldMoves
  <2> QED BY <1>10, <2>2, <2>3, <2>4 DEF RotateToken
<1>11. ASSUME NEW c \in Actors, StoreAccess(c) PROVE HoldInv'
  BY <1>1, <1>11 DEF StoreAccess, Steps
<1>12. ASSUME NEW c \in Actors, StoreRefresh(c) PROVE HoldInv'
  <2>1. act[c].step = "stored" /\ refreshLock' = Nothing BY <1>12 DEF StoreRefresh
  <2>2. CASE Rests(c) BY <1>2, <2>1, <2>2
  <2>3. CASE Does(c, "retry") BY <1>1, <2>1, <2>3 DEF Steps
  <2> QED BY <1>12, <2>2, <2>3 DEF StoreRefresh
<1>13. ASSUME NEW c \in Actors, RetryCall(c) PROVE HoldInv'
  <2>1. UNCHANGED refreshLock BY <1>13 DEF RetryCall
  <2>2. CASE Rests(c) BY <1>2, <2>1, <2>2
  <2>3. CASE act' = [act EXCEPT ![c].step = "again", ![c].token = access]
    BY <1>6, <1>f, <2>1, <2>3
  <2> QED BY <1>13, <2>2, <2>3 DEF RetryCall
<1>14. CASE WakeUp
  <2>1. Loop \in Actors /\ Does(Loop, "lock") /\ UNCHANGED refreshLock
    BY <1>14 DEF WakeUp, Actors
  <2> QED BY <1>1, <2>1 DEF Steps
<1>15. CASE InvalidateSession
  <2>1. Loop \in Actors /\ Rests(Loop) /\ UNCHANGED refreshLock
    BY <1>15 DEF InvalidateSession, Actors
  <2> QED BY <1>2, <2>1
<1>16. CASE RestartSession BY <1>16 DEF RestartSession, HoldInv, Idle
<1>17. CASE UNCHANGED <<act, refreshLock>> BY <1>17 DEF HoldInv
<1> QED
  BY <1>3, <1>4, <1>5, <1>7, <1>8, <1>9, <1>10, <1>11, <1>12, <1>13, <1>14, <1>15, <1>16, <1>17
     DEF SessionNext, sessionVars, Logout, ClearAtLogout, ExchangeCode, SignIn, ExpireAccess

LEMMA FreshStep ==
  ASSUME ServerOK, StoresOK, ActsOK, FreshInv, [SessionNext]_sessionVars
  PROVE  FreshInv'
<1>1. ASSUME NEW c \in Actors, RotateToken(c) PROVE FreshInv'
  <2>1. UNCHANGED <<opened, closed>> BY <1>1 DEF RotateToken
  <2>2. CASE UNCHANGED current BY <2>1, <2>2 DEF FreshInv
  <2>3. CASE /\ Valid(act[c].token)
             /\ current' = [current EXCEPT ![act[c].token.session] = @ + 1]
    <3>1. ~(act[c].token.session > opened) BY <2>3 DEF Valid, IsOpen, ServerOK
    <3>2. \A s \in Sessions : s > opened => current'[s] = current[s]
      BY <2>3, <3>1 DEF ServerOK
    <3> QED BY <2>1, <3>2 DEF FreshInv
  <2> QED BY <1>1, <2>2, <2>3 DEF RotateToken
<1>2. CASE Logout
  <2>1. UNCHANGED <<opened, current>> BY <1>2 DEF Logout
  <2>2. closed' = closed \/ (Accepted(access) /\ closed' = closed \cup {access.session})
    BY <1>2 DEF Logout
  <2>3. Accepted(access) => ~(access.session > opened) BY DEF Accepted, IsOpen, ServerOK
  <2> QED BY <2>1, <2>2, <2>3 DEF FreshInv
<1>3. CASE ExchangeCode
  <2>1. opened' = opened + 1 /\ UNCHANGED <<current, closed>> BY <1>3 DEF ExchangeCode
  <2>2. \A s \in Sessions : s > opened + 1 => s > opened BY DEF ServerOK, Sessions
  <2> QED BY <2>1, <2>2 DEF FreshInv
<1>4. CASE UNCHANGED <<opened, closed, current>> BY <1>4 DEF FreshInv
<1> QED
  BY <1>1, <1>2, <1>3, <1>4
     DEF SessionNext, sessionVars, CallApi, AnswerCall, KeepAnswer, CompareToken, LockRefresh,
     LoadRefresh, StoreAccess, StoreRefresh, RetryCall, WakeUp, InvalidateSession,
     ClearAtLogout, SignIn, ExpireAccess, RestartSession

\* What holds while nothing is lost: what the server accepts is on disk or carried.
Carried == \E c \in Actors : act[c].step \in {"answered", "stored"}
Renewable ==
  /\ \A c \in Actors : act[c].step = "sent" => act[c].token = refresh
  /\ user.step \in {"exchanged", "kept"} => Valid(user.token)
  /\ user.step = "kept" => refresh = NoToken /\ ~Carried
  /\ user.step # "leaving" =>
       \A c \in Actors : act[c].step \in {"answered", "stored"} => Valid(act[c].token)
  /\ Home # NoSession /\ user.step \notin {"leaving", "kept"} => Valid(refresh) \/ Carried
RenewInv == flaws = {} => Renewable

\* A step of an actor that has no part in a rotation.
LEMMA QuietMoves ==
  ASSUME Renewable, NEW c \in Actors, NEW step, NEW token, Puts(c, step, token),
         act[c].step \notin {"sent", "answered", "stored"},
         step \notin {"sent", "answered", "stored"},
         UNCHANGED <<opened, closed, current, refresh, user>>, Home' = Home
  PROVE  Renewable'
<1>1. act'[c].step = step /\ \A d \in Actors \ {c} : act'[d] = act[d] BY DEF Puts
<1>2. Carried' <=> Carried BY <1>1 DEF Carried
<1>3. \A d \in Actors : act'[d].step \in {"sent", "answered", "stored"} => act'[d] = act[d]
  BY <1>1
<1>4. Valid(refresh)' <=> Valid(refresh) BY DEF Valid, IsOpen
<1>5. Valid(user.token)' <=> Valid(user.token) BY DEF Valid, IsOpen
<1>7. \A d \in Actors : act'[d].step = "sent" => act'[d].token = refresh'
  BY <1>3 DEF Renewable
<1>8. ASSUME user'.step # "leaving", NEW d \in Actors, act'[d].step \in {"answered", "stored"}
      PROVE  Valid(act[d].token)'
  <2>1. PICK mine : mine = act[d].token OBVIOUS
  <2>2. act'[d] = act[d] /\ user.step # "leaving" BY <1>3, <1>8
  <2>3. Valid(mine) BY <1>8, <2>1, <2>2 DEF Renewable
  <2>4. Valid(mine)' BY <2>3 DEF Valid, IsOpen
  <2>5. act'[d].token = mine BY <2>1, <2>2
  <2> QED BY <2>4, <2>5 DEF Valid, IsOpen
<1> QED BY <1>2, <1>4, <1>5, <1>7, <1>8 DEF Renewable

LEMMA RenewStep ==
  ASSUME ServerOK, StoresOK, ActsOK, UserOK, CountsOK, HomeInv, HoldInv, FreshInv, RenewInv,
         [SessionNext]_sessionVars
  PROVE  RenewInv'
<1>0. SUFFICES ASSUME flaws' = {} PROVE Renewable'
  BY DEF RenewInv
<1>a. flaws = {} /\ Renewable
  <2>1. flaws = {} BY <1>0, CountsStep
  <2> QED BY <2>1 DEF RenewInv
<1>b. AtHome BY <1>a DEF HomeInv, Clean
<1>t. \A c \in Actors : act[c].token \in MaybeToken BY DEF ActsOK, Acts
<1>f. access \in MaybeToken /\ refresh \in MaybeToken BY DEF StoresOK
<1>s. {"idle", "request", "again", "compare", "lock", "load", "retry", "accepted", "invalidate",
       "sent", "answered", "stored"} = Steps
  BY DEF Steps
<1>q. ASSUME NEW c \in Actors, NEW step \in Steps \ {"sent", "answered", "stored"}, Does(c, step),
             act[c].step \notin {"sent", "answered", "stored"},
             UNCHANGED <<opened, closed, current, refresh, user>>, Home' = Home
      PROVE  Renewable'
  <2>1. Puts(c, step, act[c].token) BY <1>q, DoesPuts
  <2> QED BY <1>a, <1>q, <2>1, QuietMoves
<1>r. ASSUME NEW c \in Actors, Rests(c),
             act[c].step \notin {"sent", "answered", "stored"},
             UNCHANGED <<opened, closed, current, refresh, user>>, Home' = Home
      PROVE  Renewable'
  <2>1. Puts(c, "idle", NoToken) BY <1>r, RestsPuts
  <2> QED BY <1>a, <1>r, <2>1, QuietMoves
<1>g. ASSUME NEW c \in Actors, NEW token \in MaybeToken,
             act' = [act EXCEPT ![c].step = "again", ![c].token = token],
             act[c].step \notin {"sent", "answered", "stored"},
             UNCHANGED <<opened, closed, current, refresh, user>>, Home' = Home
      PROVE  Renewable'
  <2>1. Puts(c, "again", token) BY <1>g, <1>s, TokenPuts
  <2> QED BY <1>a, <1>g, <2>1, QuietMoves
\* Whoever takes part in a rotation is alone in it.
<1>h. ASSUME NEW c \in Actors, act[c].step \in Renewing
      PROVE  \A d \in Actors \ {c} : act[d].step \notin {"sent", "answered", "stored"}
  BY <1>h DEF HoldInv, Renewing
\* Nobody takes part in one, and nobody is signed in, or it no longer matters.
<1>n. ASSUME \A c \in Actors : act'[c].step \notin {"sent", "answered", "stored"},
             user'.step = "leaving" \/ (Home' = NoSession /\ user'.step \notin {"exchanged", "kept"})
      PROVE  Renewable'
  BY <1>n DEF Renewable
<1>o. UNCHANGED <<auth, user>> => Home' = Home BY DEF Home
<1> USE DEF Doing
<1>1. ASSUME NEW c \in Actors, NEW kind \in {"sync", "profile"}, CallApi(c, kind) PROVE Renewable'
  <2>1. Puts(c, "request", access) BY <1>f, <1>1, CallPuts DEF CallApi
  <2>2. UNCHANGED <<opened, closed, current, refresh, user>> /\ Home' = Home /\ act[c].step = "idle"
    BY <1>o, <1>1 DEF CallApi
  <2> QED BY <1>a, <2>1, <2>2, QuietMoves
<1>2. ASSUME NEW c \in Actors, AnswerCall(c) PROVE Renewable'
  <2>1. /\ UNCHANGED <<opened, closed, current, refresh, user>> /\ Home' = Home
        /\ act[c].step \in {"request", "again"}
    BY <1>o, <1>2 DEF AnswerCall
  <2>2. CASE Does(c, "accepted") BY <1>q, <1>s, <2>1, <2>2
  <2>3. CASE Does(c, "compare") BY <1>q, <1>s, <2>1, <2>3
  <2>4. CASE Rests(c) BY <1>r, <2>1, <2>4
  <2> QED BY <1>2, <2>2, <2>3, <2>4 DEF AnswerCall
<1>3. ASSUME NEW c \in Actors, KeepAnswer(c) PROVE Renewable'
  <2>1. /\ UNCHANGED <<opened, closed, current, refresh, user>> /\ Rests(c)
        /\ act[c].step = "accepted"
    BY <1>3 DEF KeepAnswer
  <2>2. CASE UNCHANGED auth BY <1>o, <1>r, <2>1, <2>2
  <2>3. CASE auth # NoAuth /\ auth' = [auth EXCEPT !.profile = act[c].token.session]
    <3>1. auth \in Auths BY DEF StoresOK
    <3>2. auth.session \in Sessions /\ auth = [session |-> auth.session, profile |-> auth.profile]
      BY <2>3, <3>1, AuthFacts
    <3>3. auth'.session = auth.session BY <2>3, <3>2
    <3>4. auth' # NoAuth BY <3>2, <3>3, TokenFacts DEF NoAuth
    <3>5. Home' = Home BY <2>3, <3>3, <3>4 DEF Home
    <3> QED BY <1>r, <2>1, <3>5
  <2> QED BY <1>3, <2>2, <2>3 DEF KeepAnswer
<1>4. ASSUME NEW c \in Actors, CompareToken(c) PROVE Renewable'
  <2>1. /\ UNCHANGED <<opened, closed, current, refresh, user>> /\ Home' = Home
        /\ act[c].step = "compare"
    BY <1>o, <1>4 DEF CompareToken
  <2>2. CASE Does(c, "lock") BY <1>q, <1>s, <2>1, <2>2
  <2>3. CASE act' = [act EXCEPT ![c].step = "again", ![c].token = access]
    BY <1>f, <1>g, <2>1, <2>3
  <2> QED BY <1>4, <2>2, <2>3 DEF CompareToken
<1>5. ASSUME NEW c \in Actors, LockRefresh(c) PROVE Renewable'
  BY <1>o, <1>q, <1>s, <1>5 DEF LockRefresh
<1>6. ASSUME NEW c \in Actors, LoadRefresh(c) PROVE Renewable'
  <2>1. /\ UNCHANGED <<opened, closed, current, refresh, user>> /\ Home' = Home
        /\ act[c].step = "load"
    BY <1>o, <1>6 DEF LoadRefresh
  <2>2. CASE Rests(c) BY <1>r, <2>1, <2>2
  <2>3. CASE refresh # NoToken /\ act' = [act EXCEPT ![c].step = "sent", ![c].token = refresh]
    <3>1. Puts(c, "sent", refresh) BY <1>f, <1>s, <2>3, TokenPuts
    <3>2. /\ act'[c].step = "sent" /\ act'[c].token = refresh
          /\ \A d \in Actors \ {c} : act'[d] = act[d]
      BY <3>1 DEF Puts
    <3>3. \A d \in Actors \ {c} : act[d].step \notin {"sent", "answered", "stored"}
      BY <1>h, <2>1 DEF Renewing
    <3>4. ~Carried BY <2>1, <3>3 DEF Carried
    <3>5. ~Carried' BY <3>2, <3>3 DEF Carried
    <3>6. (Valid(refresh)' <=> Valid(refresh)) /\ (Valid(user.token)' <=> Valid(user.token))
      BY <2>1 DEF Valid, IsOpen
    <3>7. \A d \in Actors : act'[d].step = "sent" => act'[d].token = refresh'
      BY <2>1, <3>2, <3>3
    <3>8. \A d \in Actors : act'[d].step \notin {"answered", "stored"} BY <3>2, <3>3
    <3> QED BY <1>a, <2>1, <3>4, <3>5, <3>6, <3>7, <3>8 DEF Renewable
  <2> QED BY <1>6, <2>2, <2>3 DEF LoadRefresh
<1>7. ASSUME NEW c \in Actors, RotateToken(c) PROVE Renewable'
  <2>1. /\ UNCHANGED <<opened, closed, refresh, user>> /\ Home' = Home /\ act[c].step = "sent"
    BY <1>o, <1>7 DEF RotateToken
  <2>2. act[c].token = refresh /\ refresh # NoToken /\ refresh.session = Home
    <3>1. act[c].token = refresh BY <1>a, <2>1 DEF Renewable
    <3>2. act[c].token # NoToken /\ act[c].token.session = Home
      BY <1>b, <2>1 DEF ActsOK, AtHome, Carrying
    <3> QED BY <3>1, <3>2
  <2>3. Home # NoSession BY <1>f, <2>2, SomeToken
  <2>4. user.step \notin {"exchanged", "kept"}
    <3>1. user.step # "kept" BY <1>a, <2>2 DEF Renewable
    <3>2. user.step = "exchanged" => Home = NoSession BY DEF HomeInv, Home
    <3> QED BY <2>3, <3>1, <3>2
  <2>5. \A d \in Actors \ {c} : act[d].step \notin {"sent", "answered", "stored"}
    BY <1>h, <2>1 DEF Renewing
  <2>6. CASE /\ Valid(act[c].token) /\ current[act[c].token.session] < MaxRotations
             /\ current' = [current EXCEPT ![act[c].token.session] = @ + 1]
             /\ act' = [act EXCEPT ![c].step = "answered", ![c].token.number = @ + 1]
    <3>1. act[c].token \in Tokens /\ act[c].token.number < MaxRotations
          /\ act[c].token.number = current[act[c].token.session] /\ IsOpen(act[c].token.session)
      BY <1>t, <2>6, ValidIsNumbered
    <3>2. Puts(c, "answered", Successor(act[c].token)) BY <2>6, <3>1, NumberPuts
    <3>3. PICK mine : mine = Successor(act[c].token) OBVIOUS
    <3>4. mine.session = act[c].token.session /\ mine.number = act[c].token.number + 1
      BY <3>3 DEF Successor
    <3>5. current'[mine.session] = mine.number
      BY <2>6, <3>1, <3>4, TokenFacts DEF ServerOK
    <3>6. Valid(mine)' BY <2>1, <3>1, <3>4, <3>5 DEF Valid, IsOpen
    <3>7. /\ act'[c].step = "answered" /\ act'[c].token = mine
          /\ \A d \in Actors \ {c} : act'[d] = act[d]
      BY <3>2, <3>3 DEF Puts
    <3>8. \A d \in Actors : act'[d].step # "sent" BY <2>5, <3>7
    <3>9. \A d \in Actors : act'[d].step \in {"answered", "stored"} => d = c BY <2>5, <3>7
    <3>10. Valid(act[c].token)' BY <3>6, <3>7 DEF Valid, IsOpen
    <3>11. Carried' BY <3>7 DEF Carried
    <3> QED BY <2>1, <2>4, <3>8, <3>9, <3>10, <3>11 DEF Renewable
  <2>7. CASE Flaw(TRUE, "lost") BY <1>0, <2>7 DEF Flaw
  <2>8. CASE /\ ~Valid(act[c].token) /\ UNCHANGED current
             /\ Does(c, "invalidate") \/ Rests(c)
    <3>1. ~Carried BY <2>1, <2>5 DEF Carried
    <3>2. user.step = "leaving" BY <1>a, <2>2, <2>3, <2>4, <2>8, <3>1 DEF Renewable
    <3>3. PICK step \in {"invalidate", "idle"}, token \in MaybeToken : Puts(c, step, token)
      BY <1>t, <1>s, <2>8, DoesPuts, RestsPuts, TokenFacts
    <3>4. \A d \in Actors : act'[d].step \notin {"sent", "answered", "stored"}
      BY <2>5, <3>3 DEF Puts
    <3> QED BY <1>n, <2>1, <3>2, <3>4
  <2> QED BY <1>7, <2>6, <2>7, <2>8 DEF RotateToken
<1>8. ASSUME NEW c \in Actors, StoreAccess(c) PROVE Renewable'
  <2>1. /\ UNCHANGED <<opened, closed, current, refresh, user>> /\ Home' = Home
        /\ act[c].step = "answered" /\ Does(c, "stored")
    BY <1>o, <1>8 DEF StoreAccess
  <2>2. Puts(c, "stored", act[c].token) BY <1>s, <2>1, DoesPuts
  <2>3. /\ act'[c].step = "stored" /\ act'[c].token = act[c].token
        /\ \A d \in Actors \ {c} : act'[d] = act[d]
    BY <2>2 DEF Puts
  <2>4. \A d \in Actors \ {c} : act[d].step \notin {"sent", "answered", "stored"}
    BY <1>h, <2>1 DEF Renewing
  <2>5. \A d \in Actors : act'[d].step # "sent" BY <2>3, <2>4
  <2>6. Carried /\ Carried' BY <2>1, <2>3 DEF Carried
  <2>7. user.step # "leaving" => Valid(act[c].token)' 
    <3>1. PICK mine : mine = act[c].token OBVIOUS
    <3>2. user.step # "leaving" => Valid(mine) BY <1>a, <2>1, <3>1 DEF Renewable
    <3>3. user.step # "leaving" => Valid(mine)' BY <2>1, <3>2 DEF Valid, IsOpen
    <3> QED BY <2>3, <3>1, <3>3 DEF Valid, IsOpen
  <2>8. \A d \in Actors : act'[d].step \in {"answered", "stored"} => d = c BY <2>3, <2>4
  <2>9. Valid(user.token)' <=> Valid(user.token) BY <2>1 DEF Valid, IsOpen
  <2> QED BY <1>a, <2>1, <2>5, <2>6, <2>7, <2>8, <2>9 DEF Renewable
<1>9. ASSUME NEW c \in Actors, StoreRefresh(c) PROVE Renewable'
  <2>1. /\ UNCHANGED <<opened, closed, current, user>> /\ Home' = Home
        /\ act[c].step = "stored" /\ refresh' = act[c].token
    BY <1>o, <1>9 DEF StoreRefresh
  <2>2. PICK step \in {"retry", "idle"}, token \in MaybeToken : Puts(c, step, token)
    BY <1>t, <1>s, <1>9, DoesPuts, RestsPuts, TokenFacts DEF StoreRefresh
  <2>3. \A d \in Actors \ {c} : act[d].step \notin {"sent", "answered", "stored"}
    BY <1>h, <2>1 DEF Renewing
  <2>4. \A d \in Actors : act'[d].step \notin {"sent", "answered", "stored"}
    BY <2>2, <2>3 DEF Puts
  <2>5. user.step # "leaving" => Valid(refresh)'
    <3>1. PICK mine : mine = act[c].token OBVIOUS
    <3>2. user.step # "leaving" => Valid(mine) BY <1>a, <2>1, <3>1 DEF Renewable
    <3>3. user.step # "leaving" => Valid(mine)' BY <2>1, <3>2 DEF Valid, IsOpen
    <3> QED BY <2>1, <3>1, <3>3 DEF Valid, IsOpen
  <2>6. user.step # "kept" BY <1>a, <2>1 DEF Renewable, Carried
  <2>7. Valid(user.token)' <=> Valid(user.token) BY <2>1 DEF Valid, IsOpen
  <2>8. user.step = "exchanged" => Valid(user.token) BY <1>a DEF Renewable
  <2> QED BY <2>1, <2>4, <2>5, <2>6, <2>7, <2>8 DEF Renewable
<1>10. ASSUME NEW c \in Actors, RetryCall(c) PROVE Renewable'
  <2>1. /\ UNCHANGED <<opened, closed, current, refresh, user>> /\ Home' = Home
        /\ act[c].step = "retry"
    BY <1>o, <1>10 DEF RetryCall
  <2>2. CASE Rests(c) BY <1>r, <2>1, <2>2
  <2>3. CASE act' = [act EXCEPT ![c].step = "again", ![c].token = access]
    BY <1>f, <1>g, <2>1, <2>3
  <2> QED BY <1>10, <2>2, <2>3 DEF RetryCall
<1>11. CASE WakeUp
  <2>1. Loop \in Actors BY DEF Actors
  <2> QED BY <1>o, <1>q, <1>s, <1>11, <2>1 DEF WakeUp
<1> HIDE DEF Doing
<1>12. CASE InvalidateSession
  <2>1. /\ ~InFlight(Clients) /\ user.step \in {"none", "leaving"} /\ user' = user
        /\ auth' = NoAuth
    <3>1. ~(InFlight(Clients) \/ user.step \notin {"none", "leaving"})
      BY <1>0, <1>12 DEF InvalidateSession, ClearAuth, Flaw
    <3> QED BY <1>12, <3>1 DEF InvalidateSession, ClearAuth
  <2>2. Loop \in Actors /\ Rests(Loop) BY <1>12 DEF InvalidateSession, Actors
  <2>3. Puts(Loop, "idle", NoToken) BY <2>2, RestsPuts
  <2>4. \A c \in Actors : act'[c].step \notin {"sent", "answered", "stored"}
    BY <2>1, <2>3 DEF Puts, InFlight, Actors
  <2>5. Home' = NoSession BY <2>1 DEF Home
  <2> QED BY <1>n, <2>1, <2>4, <2>5
<1>13. CASE ClearAtLogout
  <2>1. /\ ~InFlight(Actors) /\ user' = Nowhere /\ auth' = NoAuth /\ act' = act
    <3>1. ~(InFlight(Actors) \/ user.step \notin {"none", "leaving"})
      BY <1>0, <1>13 DEF ClearAtLogout, ClearAuth, Flaw
    <3> QED BY <1>13, <3>1 DEF ClearAtLogout, ClearAuth
  <2>2. \A c \in Actors : act'[c].step \notin {"sent", "answered", "stored"}
    BY <2>1 DEF InFlight
  <2>3. user'.step = "none" BY <2>1 DEF Nowhere
  <2>4. Home' = NoSession BY <2>1, <2>3 DEF Home
  <2> QED BY <1>n, <2>2, <2>3, <2>4
<1>14. CASE Logout
  <2>1. ~InFlight(Actors) BY <1>0, <1>14 DEF Logout, Flaw
  <2>2. user'.step = "leaving" /\ act' = act BY <1>14 DEF Logout
  <2>3. \A c \in Actors : act'[c].step \notin {"sent", "answered", "stored"}
    BY <2>1, <2>2 DEF InFlight
  <2> QED BY <1>n, <2>2, <2>3
<1>15. CASE ExchangeCode
  <2>1. /\ auth = NoAuth /\ user.step = "none" /\ opened < MaxSessions /\ opened' = opened + 1
        /\ user' = [step |-> "exchanged", token |-> [session |-> opened + 1, number |-> 0]]
        /\ UNCHANGED <<closed, current, auth, act>>
    BY <1>15 DEF ExchangeCode
  <2>2. Home = NoSession /\ Home' = NoSession BY <2>1 DEF Home
  <2>3. \A c \in Actors : act'[c].step \notin {"sent", "answered", "stored"}
    BY <1>b, <2>1, <2>2, NobodyCarries DEF Carrying
  <2>4. opened + 1 \in Sessions /\ opened + 1 > opened /\ opened + 1 \in 1 .. opened + 1
    BY <2>1 DEF ServerOK, Sessions
  <2>5. current[opened + 1] = 0 /\ opened + 1 \notin closed BY <2>4 DEF FreshInv
  <2>6. Valid(user.token)' BY <2>1, <2>4, <2>5 DEF Valid, IsOpen
  <2>7. user'.step = "exchanged" BY <2>1
  <2> QED BY <2>2, <2>3, <2>6, <2>7 DEF Renewable
<1>16. CASE SignIn
  <2>1. UNCHANGED <<opened, closed, current, act>> BY <1>16 DEF SignIn
  <2>2. auth = NoAuth BY <1>16 DEF SignIn, HomeInv
  <2>3. CASE user.step = "exchanged" /\ user' = [user EXCEPT !.step = "kept"] /\ UNCHANGED <<refresh, auth>>
    <3>1. user'.step = "kept" /\ user'.token = user.token BY <2>3 DEF UserOK
    <3>2. Home = NoSession BY <2>2, <2>3 DEF Home
    <3>3. \A c \in Actors : act[c].step \notin Carrying BY <1>b, <3>2, NobodyCarries
    <3>4. refresh = NoToken BY <1>b, <1>f, <3>2, SomeToken DEF AtHome
    <3>5. Valid(user.token)' BY <1>a, <2>1, <2>3, <3>1 DEF Renewable, Valid, IsOpen
    <3>6. ~Carried' BY <2>1, <3>3 DEF Carried, Carrying
    <3>7. \A c \in Actors : act'[c].step \notin {"sent", "answered", "stored"}
      BY <2>1, <3>3 DEF Carrying
    <3> QED BY <2>3, <3>1, <3>4, <3>5, <3>6, <3>7 DEF Renewable
  <2>4. CASE /\ user.step = "kept" /\ user' = [user EXCEPT !.step = "filed"]
             /\ refresh' = user.token /\ UNCHANGED auth
    <3>1. user'.step = "filed" BY <2>4 DEF UserOK
    <3>2. refresh = NoToken /\ ~Carried /\ Valid(user.token) BY <1>a, <2>4 DEF Renewable
    <3>3. \A c \in Actors : act[c].step # "sent"
      BY <1>a, <3>2 DEF Renewable, ActsOK, Carrying
    <3>4. \A c \in Actors : act'[c].step \notin {"sent", "answered", "stored"}
      BY <2>1, <3>2, <3>3 DEF Carried
    <3>5. Valid(refresh)' BY <2>1, <2>4, <3>2 DEF Valid, IsOpen
    <3> QED BY <3>1, <3>4, <3>5 DEF Renewable
  <2>5. CASE /\ user.step = "filed" /\ user' = Nowhere /\ UNCHANGED refresh
             /\ auth' = [session |-> user.token.session, profile |-> user.token.session]
    <3>1. user.token \in MaybeToken /\ user.token # NoToken BY <2>5 DEF UserOK
    <3>2. user.token.session # NoSession BY <3>1, SomeToken
    <3>3. Home = user.token.session BY <2>2, <2>5 DEF Home
    <3>4. user'.step = "none" BY <2>5 DEF Nowhere
    <3>5. Carried' <=> Carried BY <2>1 DEF Carried
    <3>6. Valid(refresh)' <=> Valid(refresh) BY <2>1, <2>5 DEF Valid, IsOpen
    <3>7. Valid(refresh)' \/ Carried' BY <1>a, <2>5, <3>2, <3>3, <3>5, <3>6 DEF Renewable
    <3>8. \A c \in Actors : act'[c].step = "sent" => act'[c].token = refresh'
      BY <1>a, <2>1, <2>5 DEF Renewable
    <3>9. ASSUME NEW c \in Actors, act'[c].step \in {"answered", "stored"}
          PROVE  Valid(act[c].token)'
      <4>1. Valid(act[c].token) BY <1>a, <2>1, <2>5, <3>9 DEF Renewable
      <4> QED BY <2>1, <4>1 DEF Valid, IsOpen
    <3> QED BY <3>4, <3>7, <3>8, <3>9 DEF Renewable
  <2> QED BY <1>16, <2>3, <2>4, <2>5 DEF SignIn
<1>17. CASE RestartSession
  <2>1. user = Nowhere /\ ~InFlight(Actors)
    <3>1. ~(user # Nowhere \/ InFlight(Actors)) BY <1>0, <1>17 DEF RestartSession, Flaw
    <3> QED BY <3>1
  <2>2. /\ auth' = auth /\ user' = user /\ UNCHANGED <<opened, closed, current, refresh>>
        /\ act' = [c \in Actors |-> Idle]
    BY <1>17, <2>1 DEF RestartSession, HomeInv
  <2>3. \A c \in Actors : act'[c].step = "idle" BY <2>2 DEF Idle
  <2>4. ~Carried BY <2>1 DEF Carried, InFlight
  <2>5. Home' = Home BY <1>o, <2>2
  <2>6. Valid(refresh)' <=> Valid(refresh) BY <2>2 DEF Valid, IsOpen
  <2>7. user.step = "none" BY <2>1 DEF Nowhere
  <2> QED BY <1>a, <2>2, <2>3, <2>4, <2>5, <2>6, <2>7 DEF Renewable
<1>18. CASE UNCHANGED <<opened, closed, current, refresh, auth, user, act>>
  <2>1. Home' = Home BY <1>o, <1>18
  <2>2. Carried' <=> Carried BY <1>18 DEF Carried
  <2>3. (Valid(refresh)' <=> Valid(refresh)) /\ (Valid(user.token)' <=> Valid(user.token))
    BY <1>18 DEF Valid, IsOpen
  <2>4. \A c \in Actors : Valid(act[c].token)' <=> Valid(act[c].token)
    BY <1>18 DEF Valid, IsOpen
  <2> QED BY <1>a, <1>18, <2>1, <2>2, <2>3, <2>4 DEF Renewable
<1> QED
  BY <1>1, <1>2, <1>3, <1>4, <1>5, <1>6, <1>7, <1>8, <1>9, <1>10, <1>11, <1>12, <1>13, <1>14,
     <1>15, <1>16, <1>17, <1>18
     DEF SessionNext, sessionVars, ExpireAccess

\* Whoever is signed in can renew the session: the refresh token on disk is the one the server
\* accepts, or the holder of refresh_lock carries it, as long as no response to a rotation is
\* lost, the application does not go down amid one, and nobody signs out amid a request.
THEOREM SessionStaysRenewable == SessionSpec => []SessionRenewable
<1>1. ASSUME SessionInit PROVE HomeInv /\ HoldInv /\ FreshInv /\ RenewInv
  <2>1. HomeInv BY <1>1, StartHome
  <2>2. /\ user.step = "none" /\ auth = NoAuth /\ closed = {} /\ current = [s \in Sessions |-> 0]
        /\ \A c \in Actors : act[c].step = "idle"
    BY <1>1 DEF SessionInit, Nowhere, Idle
  <2>3. Home = NoSession BY <2>2 DEF Home
  <2>4. HoldInv /\ FreshInv BY <2>2 DEF HoldInv, Renewing, FreshInv
  <2>5. RenewInv BY <2>2, <2>3 DEF RenewInv, Renewable
  <2> QED BY <2>1, <2>4, <2>5
<1>2. /\ SessionTypeOK /\ HomeInv /\ HoldInv /\ FreshInv /\ RenewInv /\ [SessionNext]_sessionVars
      => HomeInv' /\ HoldInv' /\ FreshInv' /\ RenewInv'
  BY TypeParts, HomeStep, HoldStep, FreshStep, RenewStep
<1>3. ASSUME SessionTypeOK, HoldInv, RenewInv PROVE SessionRenewable
  <2>1. SUFFICES ASSUME auth # NoAuth, user.step = "none", flaws = {}
                 PROVE  \/ Valid(refresh)
                        \/ \E c \in Actors :
                             refreshLock = c /\ (Doing(c, "answered") \/ Doing(c, "stored"))
                             /\ Valid(act[c].token)
    BY DEF SessionRenewable
  <2>2. Home # NoSession
    <3>1. auth \in Auths BY <1>3, TypeParts DEF StoresOK
    <3>2. auth.session # NoSession BY <2>1, <3>1, AuthFacts, TokenFacts
    <3> QED BY <2>1, <3>2 DEF Home
  <2>3. Valid(refresh) \/ Carried BY <1>3, <2>1, <2>2 DEF RenewInv, Renewable
  <2>4. ASSUME NEW c \in Actors, act[c].step \in {"answered", "stored"}
        PROVE  refreshLock = c /\ Valid(act[c].token)
    BY <1>3, <2>1, <2>4 DEF HoldInv, Renewing, RenewInv, Renewable
  <2> QED BY <2>3, <2>4 DEF Carried, Doing
<1> QED BY <1>1, <1>2, <1>3, SessionTypes, PTL DEF SessionSpec

================================================================================
