--------------------- MODULE DependencyTransitionProofs ----------------------
(***************************************************************************)
(* Proofs about DependencyTransition, for any bundle, any failures of its  *)
(* commands, any restarts and any changes of the workspace by others.      *)
(***************************************************************************)
EXTENDS DependencyTransition, TLAPS, FiniteSetTheorems, SequenceTheorems, WellFoundedInduction

-----------------------------------------------------------------------------
(* The inductive invariant. *)

\* The keys of commands: one each, and up to two installs of a member at a place.
IsInstall(k) == k = Install(k[2], k[3], k[4]) /\ k[4] \in {1, 2}
IsKey(k) == k \in {Uninstall, Retry, Normalize, CleanInstall} \/ IsInstall(k)

Cont == [status : {"queued", "waiting_command", "blocked"},
         node : {"dependency_transition", "handle_prompt", "verify_repair",
                 "target_inspection", "classify_failure"}]
Fingerprints == [declared : [Packages -> {"none", "old", "exact"}], core : {"old", "target"}]

\* The rows of commands, each requested once, and at most one of them active.
Recorded ==
  /\ exec \in [DOMAIN exec -> ExecStatus] /\ \A k \in DOMAIN exec : IsKey(k)
  /\ requested \in Seq(DOMAIN exec) /\ Range(requested) = DOMAIN exec /\ IsInjective(requested)
  /\ ended \in Seq(DOMAIN exec) /\ Range(ended) = {k \in DOMAIN exec : exec[k] # "active"}
  /\ verified \subseteq {k \in DOMAIN exec : exec[k] = "succeeded"}
  /\ \A j, k \in Active : j = k

RestTyped ==
  /\ ws \in Content /\ bound \in Fingerprints /\ cont \in Cont
  /\ attempt \in {"executing", "applied_verified", "migration_retried"}
  /\ update \in {"FAILED", "RUNNING", "PASSED"} /\ ci \in {"PENDING", "RUNNING", "PASSED"}
  /\ closed \subseteq Content /\ budget \in [requests : Nat, drift : Nat]

\* The update is retried once, on the workspace that the verified uninstall has bound.
UpdateFits ==
  /\ cont.node = "dependency_transition" => (Known(Retry) <=> update = "PASSED")
  /\ update = "PASSED" => Is(Retry, "succeeded")
  /\ Known(Retry) => Uninstall \in verified
  /\ Uninstall \in verified /\ ~ Known(Retry) => bound.declared[Blocking] = "none"
  /\ Is(Retry, "active") => ws.declared[Blocking] = "none"

\* Between closure and verdict the binding is that of the closure.
ClosureBound ==
  attempt = "applied_verified" => /\ cont.node = "verify_repair"
                                  /\ \E w \in closed : bound = Fingerprint(w)

\* The second install of a member was requested after its first.
InstallsInOrder ==
  \A n \in DOMAIN requested :
    requested[n][1] = "install" /\ Generation(requested[n]) = 2
      => \E m \in DOMAIN requested :
           m < n /\ requested[m] = Install(requested[n][2], requested[n][3], 1)

DependencyInv ==
  /\ Recorded /\ RestTyped /\ UpdateFits /\ ClosureBound /\ InstallsInOrder
  /\ InstallRetriedOnce /\ ClosedOnExactTree

-----------------------------------------------------------------------------
(* Constants, keys and their order. *)

\* The blocking package is a required member of the bundle, whose members stand in an order.
LEMMA Bundles ==
  /\ Blocking \in Packages /\ Blocking \notin Optional /\ Optional \subseteq Packages
  /\ \A p \in Packages : Rank(p) \in Nat
<1>1. Len(Members) \in Nat /\ DOMAIN Members = 1 .. Len(Members) /\ Len(Members) # 0
  BY ConstantsAssumption, LenProperties, EmptySeq
<1>2. Len(Members) \in DOMAIN Members
  BY <1>1
<1>3. Blocking \in Packages
  BY <1>2 DEF Blocking, Packages, Last, Range
<1>4. \A p \in Packages : Rank(p) \in DOMAIN Members
  BY DEF Packages, Range, Rank
<1> QED
  BY <1>1, <1>3, <1>4, ConstantsAssumption DEF Blocking, Packages

\* Installs are told apart from the other commands, and by member, place and generation.
LEMMA KeysApart ==
  /\ Uninstall # Retry /\ Uninstall # Normalize /\ Uninstall # CleanInstall
  /\ Retry # Normalize /\ Retry # CleanInstall /\ Normalize # CleanInstall
  /\ \A k \in {Uninstall, Retry, Normalize, CleanInstall} : k[1] # "install"
  /\ \A k : IsInstall(k) => k[1] = "install"
<1>1. /\ Uninstall[1] = "uninstall" /\ Retry[1] = "retry" /\ Normalize[1] = "normalize"
      /\ CleanInstall[1] = "ci"
  BY DEF Uninstall, Retry, Normalize, CleanInstall
<1>2. \A k : IsInstall(k) => k[1] = "install"
  BY DEF IsInstall, Install
<1> QED
  BY <1>1, <1>2

\* What a key of an install is made of.
LEMMA InstallIs ==
  ASSUME NEW i, NEW p, NEW g
  PROVE  /\ Install(i, p, g)[1] = "install" /\ Install(i, p, g)[2] = i
         /\ Install(i, p, g)[3] = p /\ Install(i, p, g)[4] = g
         /\ g \in {1, 2} => IsInstall(Install(i, p, g))
         /\ [Install(i, p, g) EXCEPT ![4] = 1] = Install(i, p, 1)
BY DEF Install, IsInstall

\* A nonempty set of positions has a last one, and Max is it.
LEMMA MaxIs ==
  ASSUME NEW n \in Nat, NEW S, S \subseteq 1 .. n, S # {}
  PROVE  Max(S) \in S /\ \A k \in S : k <= Max(S)
<1> DEFINE T == {n - i : i \in S}
<1>1. T \subseteq Nat /\ T # {}
  <2>1. \A i \in S : n - i \in Nat
    OBVIOUS
  <2>2. PICK i \in S : TRUE
    OBVIOUS
  <2>3. n - i \in T
    OBVIOUS
  <2> QED
    BY <2>1, <2>3
<1>2. PICK x \in T : \A y \in T : ~ (<<y, x>> \in OpToRel(<, Nat))
  BY <1>1, NatLessThanWellFounded, WFMin
<1>3. \A y \in T : x <= y
  <2> TAKE y \in T
  <2>1. x \in Nat /\ y \in Nat
    BY <1>1, <1>2
  <2>2. <<y, x>> \in Nat \X Nat /\ <<y, x>>[1] = y /\ <<y, x>>[2] = x
    BY <2>1
  <2>3. ~ (y < x)
    BY <1>2, <2>2 DEF OpToRel
  <2> QED
    BY <2>1, <2>3
<1>4. PICK i \in S : x = n - i
  BY <1>2
<1>5. \A k \in S : i >= k
  <2> TAKE k \in S
  <2>1. n - i <= n - k
    BY <1>3, <1>4
  <2> QED
    BY <2>1
<1>6. Max(S) \in S /\ \A k \in S : Max(S) >= k
  BY <1>4, <1>5 DEF Max
<1>7. Max(S) \in 1 .. n /\ \A k \in S : k \in 1 .. n
  BY <1>6
<1> QED
  BY <1>6, <1>7

\* Requests are numbered, and what a set of commands requested last is one of them.
LEMMA LatestIs ==
  ASSUME Recorded, NEW S \in SUBSET DOMAIN exec, S # {}
  PROVE  \E m \in DOMAIN requested :
           /\ LatestIn(S) = requested[m] /\ LatestIn(S) \in S
           /\ \A n \in DOMAIN requested : requested[n] \in S => n <= m
<1> DEFINE at == {n \in DOMAIN requested : requested[n] \in S}
<1>1. Len(requested) \in Nat /\ DOMAIN requested = 1 .. Len(requested)
  BY LenProperties DEF Recorded
<1>2. at # {}
  BY DEF Recorded, Range
<1>3. at \subseteq 1 .. Len(requested)
  BY <1>1
<1>4. LatestIn(S) = requested[Max(at)]
  BY DEF LatestIn
<1>5. Max(at) \in at /\ \A n \in at : n <= Max(at)
  <2> HIDE DEF at
  <2> QED
    BY <1>1, <1>2, <1>3, MaxIs
<1> QED
  BY <1>4, <1>5

\* A member is tried at most twice: what follows its first try is its second.
LEMMA SecondTry ==
  ASSUME Recorded, InstallsInOrder, NEW i, NEW p, MemberInstalls(i, p) # {},
         Generation(LatestIn(MemberInstalls(i, p))) = 1
  PROVE  /\ LatestIn(MemberInstalls(i, p)) = Install(i, p, 1)
         /\ Install(i, p, 1) \in DOMAIN exec
         /\ NextInstall(i, p) = Install(i, p, 2) /\ Install(i, p, 2) \notin DOMAIN exec
<1> DEFINE S == MemberInstalls(i, p)
<1>1. S \subseteq DOMAIN exec /\ \A k \in S : k[1] = "install" /\ k[2] = i /\ k[3] = p
  BY DEF MemberInstalls, Installs
<1>2. PICK m \in DOMAIN requested :
        /\ LatestIn(S) = requested[m] /\ LatestIn(S) \in S
        /\ \A n \in DOMAIN requested : requested[n] \in S => n <= m
  BY <1>1, LatestIs
<1>3. \A k \in S : IsInstall(k) /\ k = Install(i, p, k[4])
  BY <1>1, KeysApart DEF Recorded, IsKey, IsInstall
<1>4. LatestIn(S) = Install(i, p, 1)
  BY <1>2, <1>3 DEF Generation
<1>5. \A k \in S : Generation(k) = 1
  <2> SUFFICES ASSUME NEW k \in S, k[4] = 2
               PROVE  FALSE
    BY <1>3 DEF Generation, IsInstall
  <2>1. PICK n \in DOMAIN requested : requested[n] = k
    BY <1>1 DEF Recorded, Range
  <2>2. PICK j \in DOMAIN requested : j < n /\ requested[j] = Install(i, p, 1)
    BY <1>1, <2>1 DEF InstallsInOrder, Generation
  <2>3. j = m
    BY <1>2, <1>4, <2>2 DEF Recorded, IsInjective
  <2>4. n <= m /\ n \in Nat /\ m \in Nat
    BY <1>2, <2>1, LenProperties DEF Recorded
  <2> QED
    BY <2>2, <2>3, <2>4
<1>6. {Generation(k) : k \in S} = {1}
  BY <1>2, <1>5
<1>7. Max({1}) = 1
  BY DEF Max
<1>8. NextInstall(i, p) = Install(i, p, 2)
  BY <1>2, <1>6, <1>7 DEF NextInstall
<1>9. Install(i, p, 2) \notin DOMAIN exec
  BY <1>5, InstallIs DEF MemberInstalls, Installs, Generation
<1> QED
  BY <1>1, <1>2, <1>4, <1>8, <1>9

-----------------------------------------------------------------------------
(* The rows of commands. *)

RowsFit == Recorded /\ InstallsInOrder /\ InstallRetriedOnce

Succeeded == {k \in DOMAIN exec : exec[k] = "succeeded"}

\* Verified commands, and rows that stay.
LEMMA RowsStay ==
  ASSUME RowsFit, UNCHANGED <<exec, requested, ended>>, verified' \subseteq Succeeded
  PROVE  RowsFit'
BY DEF RowsFit, Recorded, Active, InstallsInOrder, InstallRetriedOnce, Installs, Succeeded

\* A command that may be queued: its key is new, and a second install comes after the failure
\* of the first and a normalization.
Queueable(k) ==
  /\ IsKey(k) /\ k \notin DOMAIN exec
  /\ IsInstall(k) /\ Generation(k) = 2
       => LET f == Install(k[2], k[3], 1) IN f \in DOMAIN exec /\ NormalizedAfter(f)

\* A new row, or a blocked continuation.
LEMMA InsertKeeps ==
  ASSUME RowsFit, NEW k, NEW node, Queueable(k), Insert(k, node), UNCHANGED ended,
         verified' \subseteq Succeeded
  PROVE  RowsFit'
<1>1. CASE Active # {}
  BY <1>1, RowsStay DEF Insert, Rows
<1>2. CASE Active = {}
  <2>1. /\ exec' = [x \in DOMAIN exec \cup {k} |-> IF x = k THEN "active" ELSE exec[x]]
        /\ requested' = Append(requested, k)
    BY <1>2 DEF Insert
  <2>2. /\ requested \in Seq(DOMAIN exec) /\ Range(requested) = DOMAIN exec
        /\ IsInjective(requested) /\ IsKey(k) /\ k \notin DOMAIN exec
    BY DEF RowsFit, Recorded, Queueable
  <2>3. /\ DOMAIN exec' = DOMAIN exec \cup {k} /\ exec'[k] = "active"
        /\ \A x \in DOMAIN exec : exec'[x] = exec[x]
    BY <2>1, <2>2
  <2> DEFINE D == DOMAIN exec \cup {k}
             L == Len(requested)
  <2>4. requested \in Seq(D) /\ k \in D /\ L \in Nat /\ DOMAIN requested = 1 .. L
    BY <2>2, SeqMonotonic, LenProperties
  <2>5. /\ requested' \in Seq(D) /\ Len(requested') = L + 1
        /\ \A n \in 1 .. L : requested'[n] = requested[n]
        /\ requested'[L + 1] = k
    BY <2>1, <2>4, AppendProperties
  <2>6. DOMAIN requested' = 1 .. (L + 1)
    BY <2>5, LenProperties
  <2>7. \A n \in 1 .. L : requested[n] \in DOMAIN exec
    BY <2>2, <2>4, ElementOfSeq
  <2>8. Range(requested') = D
    <3>1. \A n \in 1 .. (L + 1) : requested'[n] \in D
      BY <2>5, <2>6, ElementOfSeq
    <3>2. \A x \in DOMAIN exec : \E n \in 1 .. L : requested[n] = x
      BY <2>2, <2>4 DEF Range
    <3>3. \A x \in D : \E n \in 1 .. (L + 1) : requested'[n] = x
      <4> TAKE x \in D
      <4>1. CASE x = k
        BY <4>1, <2>4, <2>5
      <4>2. CASE x \in DOMAIN exec
        <5>1. PICK n \in 1 .. L : requested[n] = x
          BY <4>2, <3>2
        <5>2. n \in 1 .. (L + 1) /\ requested'[n] = x
          BY <5>1, <2>4, <2>5
        <5> QED
          BY <5>2
      <4> QED
        BY <4>1, <4>2
    <3> QED
      BY <3>1, <3>3, <2>6 DEF Range
  <2>9. IsInjective(requested')
    <3>1. \A n \in 1 .. L : requested'[n] # k
      BY <2>2, <2>5, <2>7
    <3>2. \A m, n \in 1 .. L : requested'[m] = requested'[n] => m = n
      BY <2>2, <2>4, <2>5 DEF IsInjective
    <3>3. \A n \in 1 .. (L + 1) : n \in 1 .. L \/ n = L + 1
      BY <2>4
    <3> QED
      BY <2>5, <2>6, <3>1, <3>2, <3>3 DEF IsInjective
  <2>10. /\ ended' \in Seq(D) /\ \A n \in DOMAIN ended : ended[n] \in DOMAIN exec
    <3>1. ended \in Seq(DOMAIN exec)
      BY DEF RowsFit, Recorded
    <3>2. ended \in Seq(D)
      BY <3>1, SeqMonotonic
    <3> QED
      BY <3>1, <3>2, ElementOfSeq, LenProperties
  <2>11. Range(ended') = {x \in DOMAIN exec' : exec'[x] # "active"}
    BY <2>3 DEF RowsFit, Recorded
  <2>12. verified' \subseteq {x \in DOMAIN exec' : exec'[x] = "succeeded"}
    BY <2>3 DEF Succeeded
  <2>13. Active' = {k}
    BY <1>2, <2>3 DEF Active
  <2>14. exec' \in [DOMAIN exec' -> ExecStatus] /\ \A x \in DOMAIN exec' : IsKey(x)
    <3>1. exec \in [DOMAIN exec -> ExecStatus] /\ \A x \in DOMAIN exec : IsKey(x)
      BY DEF RowsFit, Recorded
    <3>2. "active" \in ExecStatus
      BY DEF ExecStatus
    <3> QED
      BY <2>1, <2>2, <3>1, <3>2
  <2>15. Recorded'
    BY <2>3, <2>5, <2>8, <2>9, <2>10, <2>11, <2>12, <2>13, <2>14 DEF Recorded
  <2>16. InstallsInOrder'
    <3> SUFFICES ASSUME NEW n \in 1 .. (L + 1), requested'[n][1] = "install",
                        Generation(requested'[n]) = 2
                 PROVE  \E m \in 1 .. (L + 1) :
                          m < n /\ requested'[m]
                                     = Install(requested'[n][2], requested'[n][3], 1)
      BY <2>6 DEF InstallsInOrder, Generation
    <3>1. CASE n \in 1 .. L
      <4>1. requested'[n] = requested[n]
        BY <3>1, <2>5
      <4>2. PICK m \in 1 .. L :
              m < n /\ requested[m] = Install(requested[n][2], requested[n][3], 1)
        BY <3>1, <4>1, <2>4 DEF RowsFit, InstallsInOrder
      <4>3. m \in 1 .. (L + 1) /\ requested'[m] = requested[m]
        BY <2>4, <2>5
      <4> QED
        BY <4>1, <4>2, <4>3
    <3>2. CASE n = L + 1
      <4>1. requested'[n] = k /\ k[1] = "install" /\ Generation(k) = 2
        BY <3>2, <2>5
      <4>2. IsInstall(k)
        BY <4>1, <2>2, KeysApart DEF IsKey
      <4>3. Install(k[2], k[3], 1) \in DOMAIN exec
        BY <4>1, <4>2 DEF Queueable
      <4>4. PICK m \in 1 .. L : requested[m] = Install(k[2], k[3], 1)
        BY <4>3, <2>2, <2>4 DEF Range
      <4>5. m \in 1 .. (L + 1) /\ m < n /\ requested'[m] = requested[m]
        BY <3>2, <2>4, <2>5
      <4> QED
        BY <4>1, <4>4, <4>5
    <3> QED
      BY <3>1, <3>2, <2>4
  <2>17. InstallRetriedOnce'
    <3> SUFFICES ASSUME NEW j \in D, j[1] = "install"
                 PROVE  /\ Generation(j) <= 2
                        /\ Generation(j) = 2 =>
                             \E m, n \in DOMAIN ended :
                               /\ ended[m] = [j EXCEPT ![4] = 1] /\ ended[n] = Normalize /\ m < n
                               /\ \A x \in DOMAIN ended : ended[x] = j => n < x
      BY <2>3 DEF InstallRetriedOnce, Installs, Generation
    <3>1. CASE j \in DOMAIN exec
      BY <3>1 DEF RowsFit, InstallRetriedOnce, Installs
    <3>2. CASE j = k
      <4>1. IsInstall(k) /\ k = Install(k[2], k[3], k[4]) /\ k[4] \in {1, 2}
        BY <3>2, <2>2, KeysApart DEF IsKey, IsInstall
      <4>2. [k EXCEPT ![4] = 1] = Install(k[2], k[3], 1)
        BY <4>1, InstallIs
      <4>3. Generation(k) = 2 => NormalizedAfter(Install(k[2], k[3], 1))
        BY <4>1 DEF Queueable
      <4>4. \A x \in DOMAIN ended : ended[x] # k
        BY <2>2, <2>10
      <4> QED
        BY <3>2, <4>1, <4>2, <4>3, <4>4 DEF NormalizedAfter, Generation
    <3> QED
      BY <3>1, <3>2
  <2> QED
    BY <2>15, <2>16, <2>17 DEF RowsFit
<1> QED
  BY <1>1, <1>2

-----------------------------------------------------------------------------
(* A pass of node dependency_transition. *)

RetryStays ==
  /\ Known(Retry)' = Known(Retry) /\ Is(Retry, "active")' = Is(Retry, "active")
  /\ Is(Retry, "succeeded")' = Is(Retry, "succeeded")

InvParts ==
  /\ RowsFit /\ RestTyped /\ UpdateFits /\ ClosureBound /\ ClosedOnExactTree

\* The parts of the invariant, in this state and the next.
LEMMA Parts == (DependencyInv <=> InvParts) /\ (DependencyInv' <=> InvParts')
BY DEF DependencyInv, InvParts, RowsFit

\* A command of the operation is queued, or the row is blocked.
LEMMA QueueKeeps ==
  ASSUME RowsFit, cont \in Cont, cont.node = "dependency_transition", NEW k, k # Retry,
         Queueable(k), QueueTransition(k) \/ Insert(k, "dependency_transition"),
         UNCHANGED ended, verified' \subseteq Succeeded
  PROVE  RowsFit' /\ RetryStays /\ cont' \in Cont /\ cont'.node = cont.node
<1>1. Insert(k, "dependency_transition") \/ (Blocked /\ UNCHANGED Rows)
  BY DEF QueueTransition
<1>2. cont' \in Cont /\ cont'.node = cont.node
  BY <1>1 DEF Insert, Blocked, Wait, Cont
<1>3. CASE Blocked /\ UNCHANGED Rows
  BY <1>2, <1>3, RowsStay DEF Rows, RetryStays, Known, Is
<1>4. CASE Insert(k, "dependency_transition")
  <2>1. RowsFit'
    BY <1>4, InsertKeeps
  <2>2. Known(Retry)' = Known(Retry) /\ \A s : Is(Retry, s)' = Is(Retry, s)
    BY <1>4 DEF Insert, Rows, Known, Is
  <2> QED
    BY <1>2, <2>1, <2>2 DEF RetryStays
<1> QED
  BY <1>1, <1>3, <1>4

\* A pass that keeps the row at the node and binds, if anything, the workspace it verified.
LEMMA PassKeeps ==
  ASSUME DependencyInv, RowsFit', RetryStays, cont.node = "dependency_transition",
         cont' \in Cont, cont'.node = cont.node,
         UNCHANGED <<ws, attempt, update, closed, budget>>,
         ci' \in {"PENDING", "RUNNING", "PASSED"},
         verified \subseteq verified', bound' \in {bound, Fingerprint(ws)},
         bound' # bound => Known(Retry) \/ ws.declared[Blocking] = "none",
         Uninstall \in verified' \ verified => bound'.declared[Blocking] = "none"
  PROVE  DependencyInv'
<1>1. InvParts
  BY Parts
<1>2. Fingerprint(ws) \in Fingerprints /\ Fingerprint(ws).declared = ws.declared
  BY <1>1 DEF InvParts, RestTyped, Content, Fingerprint, Fingerprints
<1>3. RestTyped'
  BY <1>1, <1>2 DEF InvParts, RestTyped
<1>4. UpdateFits'
  BY <1>1, <1>2 DEF InvParts, UpdateFits, RetryStays
<1>5. attempt # "applied_verified"
  BY <1>1 DEF InvParts, ClosureBound
<1> QED
  BY <1>1, <1>3, <1>4, <1>5, Parts DEF InvParts, ClosureBound, ClosedOnExactTree

\* What every pass of the node starts from.
LEMMA AtNode ==
  ASSUME DependencyInv, At("dependency_transition")
  PROVE  /\ InvParts /\ RowsFit /\ cont \in Cont /\ cont.node = "dependency_transition"
         /\ verified \subseteq Succeeded /\ ci \in {"PENDING", "RUNNING", "PASSED"}
         /\ attempt # "applied_verified" /\ (update = "PASSED" <=> Known(Retry))
BY Parts DEF InvParts, At, RestTyped, RowsFit, Recorded, Succeeded, ClosureBound, UpdateFits

\* The row waits, is blocked, or goes on with the node.
LEMMA RowOnly ==
  ASSUME cont \in Cont, cont.node = "dependency_transition",
         Wait(cont.node) \/ Blocked \/ Queued("dependency_transition"), UNCHANGED Rows
  PROVE  cont' \in Cont /\ cont'.node = cont.node /\ RetryStays
BY DEF Wait, Blocked, Queued, Cont, Rows, RetryStays, Known, Is

\* uninstall: the workspace is bound once the package is out of manifest and tree.
LEMMA UninstallKeeps ==
  ASSUME DependencyInv, PhaseUninstall
  PROVE  DependencyInv'
<1>1. /\ At("dependency_transition") /\ Phase = "uninstall"
      /\ UNCHANGED <<ws, attempt, ended, update, ci, closed, budget>>
  BY DEF PhaseUninstall
<1>2. /\ RowsFit /\ cont \in Cont /\ cont.node = "dependency_transition"
      /\ verified \subseteq Succeeded /\ ci' \in {"PENDING", "RUNNING", "PASSED"}
  BY <1>1, AtNode
<1>3. CASE ~ Known(Uninstall) /\ QueueTransition(Uninstall) /\ UNCHANGED <<bound, verified>>
  <2>1. Queueable(Uninstall) /\ Uninstall # Retry
    BY <1>3, KeysApart DEF Queueable, IsKey, Known
  <2>2. RowsFit' /\ RetryStays /\ cont' \in Cont /\ cont'.node = cont.node
    BY <1>1, <1>2, <1>3, <2>1, QueueKeeps
  <2> QED
    BY <1>1, <1>2, <1>3, <2>2, PassKeeps
<1>4. CASE (Waits(Uninstall) \/ Fails(Uninstall)) /\ UNCHANGED <<bound, verified>>
  <2>1. RowsFit' /\ RetryStays /\ cont' \in Cont /\ cont'.node = cont.node
    BY <1>1, <1>2, <1>4, RowOnly, RowsStay DEF Waits, Fails, Rows
  <2> QED
    BY <1>1, <1>2, <1>4, <2>1, PassKeeps
<1>5. CASE /\ Is(Uninstall, "succeeded") /\ UNCHANGED Rows
           /\ IF ws.declared[Blocking] = "none" /\ ws.installed[Blocking] = "none"
                THEN /\ verified' = verified \cup {Uninstall}
                     /\ bound' = Fingerprint(ws)
                     /\ Queued("dependency_transition")
                ELSE Blocked /\ UNCHANGED <<bound, verified>>
  <2>1. verified \subseteq verified' /\ verified' \subseteq Succeeded
    BY <1>2, <1>5 DEF Is, Known, Succeeded
  <2>2. RowsFit' /\ RetryStays /\ cont' \in Cont /\ cont'.node = cont.node
    BY <1>1, <1>2, <1>5, <2>1, RowOnly, RowsStay DEF Rows
  <2>3. /\ bound' \in {bound, Fingerprint(ws)}
        /\ bound' # bound => ws.declared[Blocking] = "none"
        /\ Uninstall \in verified' \ verified => bound'.declared[Blocking] = "none"
    BY <1>5 DEF Fingerprint
  <2> QED
    BY <1>1, <1>2, <2>1, <2>2, <2>3, PassKeeps
<1> QED
  BY <1>3, <1>4, <1>5 DEF PhaseUninstall

\* normalize_lockfile: one command at most.
LEMMA NormalizeKeeps ==
  ASSUME DependencyInv, PhaseNormalize
  PROVE  DependencyInv'
<1>1. /\ At("dependency_transition")
      /\ UNCHANGED <<ws, bound, attempt, ended, verified, update, ci, closed, budget>>
  BY DEF PhaseNormalize
<1>2. /\ RowsFit /\ cont \in Cont /\ cont.node = "dependency_transition"
      /\ verified \subseteq Succeeded /\ ci' \in {"PENDING", "RUNNING", "PASSED"}
  BY <1>1, AtNode
<1>3. RowsFit' /\ RetryStays /\ cont' \in Cont /\ cont'.node = cont.node
  <2>1. CASE ~ Known(Normalize) /\ QueueTransition(Normalize)
    <3>1. Queueable(Normalize) /\ Normalize # Retry
      BY <2>1, KeysApart DEF Queueable, IsKey, Known
    <3> QED
      BY <1>1, <1>2, <2>1, <3>1, QueueKeeps
  <2>2. CASE \/ Waits(Normalize) \/ Fails(Normalize)
             \/ Queued("dependency_transition") /\ UNCHANGED Rows
    BY <1>1, <1>2, <2>2, RowOnly, RowsStay DEF Waits, Fails, Rows
  <2> QED
    BY <2>1, <2>2 DEF PhaseNormalize
<1> QED
  BY <1>1, <1>2, <1>3, PassKeeps

\* npm_ci: it comes after the update, so its binding is not what the update runs on.
LEMMA CiKeeps ==
  ASSUME DependencyInv, PhaseCi
  PROVE  DependencyInv'
<1>1. /\ At("dependency_transition") /\ Phase = "npm_ci"
      /\ UNCHANGED <<ws, attempt, ended, update, closed, budget>>
  BY DEF PhaseCi
<1>2. /\ RowsFit /\ cont \in Cont /\ cont.node = "dependency_transition"
      /\ verified \subseteq Succeeded /\ ci \in {"PENDING", "RUNNING", "PASSED"}
      /\ (update = "PASSED" <=> Known(Retry))
  BY <1>1, AtNode
<1>3. Known(Retry) /\ Uninstall \in verified
  BY <1>1, <1>2 DEF Phase, InstallPhase
<1>4. CASE /\ ~ Known(CleanInstall) /\ Insert(CleanInstall, "dependency_transition")
           /\ ci' = (IF Active = {} THEN "RUNNING" ELSE ci) /\ UNCHANGED <<bound, verified>>
  <2>1. Queueable(CleanInstall) /\ CleanInstall # Retry
    BY <1>4, KeysApart DEF Queueable, IsKey, Known
  <2>2. RowsFit' /\ RetryStays /\ cont' \in Cont /\ cont'.node = cont.node
    BY <1>1, <1>2, <1>4, <2>1, QueueKeeps
  <2> QED
    BY <1>1, <1>2, <1>4, <2>2, PassKeeps
<1>5. CASE (Waits(CleanInstall) \/ Fails(CleanInstall)) /\ UNCHANGED <<bound, verified, ci>>
  <2>1. RowsFit' /\ RetryStays /\ cont' \in Cont /\ cont'.node = cont.node
    BY <1>1, <1>2, <1>5, RowOnly, RowsStay DEF Waits, Fails, Rows
  <2> QED
    BY <1>1, <1>2, <1>5, <2>1, PassKeeps
<1>6. CASE /\ Is(CleanInstall, "succeeded") /\ verified' = verified \cup {CleanInstall}
           /\ bound' = Fingerprint(ws) /\ ci' = "PASSED"
           /\ Queued("dependency_transition") /\ UNCHANGED Rows
  <2>1. verified \subseteq verified' /\ verified' \subseteq Succeeded
    BY <1>2, <1>6 DEF Is, Known, Succeeded
  <2>2. RowsFit' /\ RetryStays /\ cont' \in Cont /\ cont'.node = cont.node
    BY <1>1, <1>2, <1>6, <2>1, RowOnly, RowsStay DEF Rows
  <2> QED
    BY <1>1, <1>2, <1>3, <1>6, <2>1, <2>2, PassKeeps
<1> QED
  BY <1>4, <1>5, <1>6 DEF PhaseCi

\* reinstall: what is verified has succeeded, and a second try is the only one.
LEMMA InstallKeeps ==
  ASSUME DependencyInv, PhaseInstall
  PROVE  DependencyInv'
<1>1. /\ At("dependency_transition") /\ Phase = "reinstall"
      /\ verified' = verified \cup {LatestOf(p) : p \in Settled}
      /\ bound' = IF Settled = {} THEN bound ELSE Fingerprint(ws)
      /\ UNCHANGED <<ws, attempt, ended, update, ci, closed, budget>>
  BY DEF PhaseInstall
<1>2. /\ RowsFit /\ cont \in Cont /\ cont.node = "dependency_transition"
      /\ verified \subseteq Succeeded /\ ci \in {"PENDING", "RUNNING", "PASSED"}
      /\ (update = "PASSED" <=> Known(Retry))
  BY <1>1, AtNode
<1>3. Known(Retry) /\ Uninstall \in verified
  BY <1>1, <1>2 DEF Phase, InstallPhase
<1>4. \A p \in Settled : LatestOf(p) \in Succeeded
  <2> TAKE p \in Settled
  <2>1. p \in Bundle /\ p \in Packages /\ \A q \in Unsettled : Rank(p) < Rank(q)
    BY DEF Settled, Bundle
  <2>2. p \notin Unsettled
    BY <2>1, Bundles
  <2> QED
    BY <2>1, <2>2 DEF Unsettled, Is, Known, Succeeded
<1>5. verified \subseteq verified' /\ verified' \subseteq Succeeded
  BY <1>1, <1>2, <1>4
<1>6. RowsFit' /\ RetryStays /\ cont' \in Cont /\ cont'.node = cont.node
  <2>1. CASE Queued("dependency_transition") /\ UNCHANGED Rows
    BY <1>1, <1>2, <1>5, <2>1, RowOnly, RowsStay DEF Rows
  <2>2. ASSUME NEW p, StopsAt(p)
        PROVE  RowsFit' /\ RetryStays /\ cont' \in Cont /\ cont'.node = cont.node
    <3>1. CASE ~ Started(p) /\ QueueTransition(NextInstall(Place(p), p))
      <4>1. NextInstall(Place(p), p) = Install(Place(p), p, 1)
        BY <3>1 DEF Started, NextInstall
      <4>2. Install(Place(p), p, 1) \notin DOMAIN exec
        BY <3>1, InstallIs DEF Started, MemberInstalls, Installs
      <4>3. Queueable(Install(Place(p), p, 1)) /\ Install(Place(p), p, 1) # Retry
        BY <4>2, InstallIs, KeysApart DEF Queueable, IsKey, Generation
      <4> QED
        BY <1>1, <1>2, <1>5, <3>1, <4>1, <4>3, QueueKeeps
    <3>2. CASE Blocked /\ UNCHANGED Rows
      BY <1>1, <1>2, <1>5, <3>2, RowOnly, RowsStay DEF Rows
    <3>3. CASE Waits(LatestOf(p))
      BY <1>1, <1>2, <1>5, <3>3, RowOnly, RowsStay DEF Rows, Waits
    <3>4. CASE /\ Started(p) /\ Retriable(LatestOf(p)) /\ NormalizedAfter(LatestOf(p))
               /\ QueueTransition(NextInstall(Place(p), p))
      <4>1. /\ MemberInstalls(Place(p), p) # {}
            /\ Generation(LatestIn(MemberInstalls(Place(p), p))) = 1
        BY <3>4 DEF Started, Retriable, LatestOf
      <4>2. /\ LatestOf(p) = Install(Place(p), p, 1) /\ LatestOf(p) \in DOMAIN exec
            /\ NextInstall(Place(p), p) = Install(Place(p), p, 2)
            /\ Install(Place(p), p, 2) \notin DOMAIN exec
        BY <1>2, <4>1, SecondTry DEF RowsFit, LatestOf
      <4>3. Queueable(Install(Place(p), p, 2)) /\ Install(Place(p), p, 2) # Retry
        BY <3>4, <4>2, InstallIs, KeysApart DEF Queueable, IsKey
      <4> QED
        BY <1>1, <1>2, <1>5, <3>4, <4>2, <4>3, QueueKeeps
    <3> QED
      BY <2>2, <3>1, <3>2, <3>3, <3>4 DEF StopsAt
  <2> QED
    BY <2>1, <2>2 DEF PhaseInstall
<1>7. bound' \in {bound, Fingerprint(ws)} /\ ci' = ci
  BY <1>1
<1> QED
  BY <1>1, <1>2, <1>3, <1>5, <1>6, <1>7, PassKeeps

-----------------------------------------------------------------------------
(* The update, the closure and the verdict. *)

\* angular_update: the one retry starts on the workspace that was bound.
LEMMA UpdateKeeps ==
  ASSUME DependencyInv, PhaseUpdate
  PROVE  DependencyInv'
<1>1. /\ At("dependency_transition") /\ Phase = "angular_update"
      /\ UNCHANGED <<ws, bound, attempt, ended, verified, ci, closed, budget>>
  BY DEF PhaseUpdate
<1>2. /\ InvParts /\ RowsFit /\ cont \in Cont /\ cont.node = "dependency_transition"
      /\ verified \subseteq Succeeded /\ attempt # "applied_verified"
      /\ (update = "PASSED" <=> Known(Retry))
  BY <1>1, AtNode
<1>3. Uninstall \in verified /\ update # "PASSED" /\ ~ Known(Retry)
  BY <1>1, <1>2 DEF Phase, InstallPhase
<1>4. bound.declared[Blocking] = "none"
  BY <1>2, <1>3 DEF InvParts, UpdateFits
<1>5. CASE Blocked /\ UNCHANGED <<exec, requested, update>>
  <2>1. RowsFit' /\ RetryStays /\ cont' \in Cont /\ cont'.node = cont.node
    BY <1>1, <1>2, <1>5, RowOnly, RowsStay DEF Rows
  <2> QED
    BY <1>1, <1>2, <1>5, <2>1, Parts
       DEF InvParts, RestTyped, UpdateFits, RetryStays, ClosureBound, ClosedOnExactTree
<1>6. CASE /\ GovernedWorkspace /\ Active = {} /\ Insert(Retry, "handle_prompt")
           /\ update' = "RUNNING"
  <2>1. Queueable(Retry)
    BY <1>3, KeysApart DEF Queueable, IsKey, Known
  <2>2. RowsFit'
    BY <1>1, <1>2, <1>6, <2>1, InsertKeeps
  <2>3. cont' \in Cont /\ cont'.node = "handle_prompt"
    BY <1>6 DEF Insert, Wait, Cont
  <2>4. ws.declared[Blocking] = "none"
    BY <1>4, <1>6 DEF GovernedWorkspace, Fingerprint
  <2>5. Known(Retry)'
    BY <1>6 DEF Insert, Known
  <2>6. UpdateFits'
    BY <1>1, <1>3, <1>6, <2>3, <2>4, <2>5 DEF UpdateFits
  <2> QED
    BY <1>1, <1>2, <1>6, <2>2, <2>3, <2>6, Parts
       DEF InvParts, RestTyped, ClosureBound, ClosedOnExactTree
<1>7. CASE /\ Active # {} /\ Insert(Retry, "handle_prompt") /\ UNCHANGED update
  BY <1>5, <1>7 DEF Insert, Rows
<1> QED
  BY <1>5, <1>6, <1>7 DEF PhaseUpdate

\* handle_prompt records how the retry ended.
LEMMA PromptKeeps ==
  ASSUME DependencyInv, HandlePrompt
  PROVE  DependencyInv'
<1>1. /\ cont.node = "handle_prompt" /\ InvParts
      /\ UNCHANGED <<ws, bound, attempt, exec, requested, ended, verified, ci, closed, budget>>
  BY Parts DEF HandlePrompt, At
<1>2. RowsFit'
  BY <1>1, RowsStay DEF InvParts, RowsFit, Recorded, Succeeded
<1>3. RetryStays
  BY <1>1 DEF RetryStays, Known, Is
<1>4. CASE Is(Retry, "succeeded") /\ update' = "PASSED" /\ Queued("dependency_transition")
  <2>1. cont' \in Cont /\ cont'.node = "dependency_transition" /\ Known(Retry)
    BY <1>4 DEF Queued, Cont, Is
  <2> QED
    BY <1>1, <1>2, <1>3, <1>4, <2>1, Parts
       DEF InvParts, RestTyped, UpdateFits, RetryStays, ClosureBound, ClosedOnExactTree
<1>5. CASE ~ Is(Retry, "succeeded") /\ update' = "FAILED" /\ Queued("classify_failure")
  <2>1. cont' \in Cont /\ cont'.node = "classify_failure"
    BY <1>5 DEF Queued, Cont
  <2> QED
    BY <1>1, <1>2, <1>3, <1>5, <2>1, Parts
       DEF InvParts, RestTyped, UpdateFits, RetryStays, ClosureBound, ClosedOnExactTree
<1> QED
  BY <1>4, <1>5 DEF HandlePrompt

\* closure: the tree that is verified is the one that is bound.
LEMMA ClosureKeeps ==
  ASSUME DependencyInv, PhaseClosure
  PROVE  DependencyInv'
<1>1. /\ At("dependency_transition")
      /\ UNCHANGED <<ws, bound, exec, requested, ended, verified, update, ci, budget>>
  BY DEF PhaseClosure
<1>2. /\ InvParts /\ RowsFit /\ cont \in Cont /\ cont.node = "dependency_transition"
      /\ verified \subseteq Succeeded
  BY <1>1, AtNode
<1>3. RowsFit' /\ RetryStays
  BY <1>1, <1>2, RowsStay DEF RetryStays, Known, Is
<1>4. CASE Blocked /\ UNCHANGED <<attempt, closed>>
  <2>1. cont' \in Cont /\ cont'.node = cont.node
    BY <1>2, <1>4 DEF Blocked, Cont
  <2> QED
    BY <1>1, <1>2, <1>3, <1>4, <2>1, Parts
       DEF InvParts, RestTyped, UpdateFits, RetryStays, ClosureBound, ClosedOnExactTree
<1>5. CASE /\ Fingerprint(ws) = bound /\ ClosureHolds /\ attempt' = "applied_verified"
           /\ closed' = closed \cup {ws} /\ Queued("verify_repair")
  <2>1. cont' \in Cont /\ cont'.node = "verify_repair"
    BY <1>5 DEF Queued, Cont
  <2>2. \A p \in Packages \ Optional : ws.declared[p] = "exact" /\ ws.installed[p] = "exact"
    BY <1>5 DEF ClosureHolds, Bundle, Exact
  <2>3. ClosedOnExactTree'
    BY <1>2, <1>5, <2>2 DEF InvParts, ClosedOnExactTree, ClosureHolds
  <2>4. RestTyped' /\ UpdateFits'
    BY <1>1, <1>2, <1>3, <1>5, <2>1 DEF InvParts, RestTyped, UpdateFits, RetryStays
  <2>5. ClosureBound'
    BY <1>1, <1>5, <2>1 DEF ClosureBound, Fingerprint
  <2> QED
    BY <1>3, <2>3, <2>4, <2>5, Parts DEF InvParts
<1> QED
  BY <1>4, <1>5 DEF PhaseClosure

\* verify_repair: the attempt counts as retried on the workspace of its closure.
LEMMA VerdictKeeps ==
  ASSUME DependencyInv, VerifyRepair
  PROVE  DependencyInv'
<1>1. /\ cont.node = "verify_repair" /\ InvParts /\ cont \in Cont
      /\ UNCHANGED <<ws, bound, exec, requested, ended, verified, update, ci, closed, budget>>
  BY Parts DEF VerifyRepair, At, InvParts, RestTyped
<1>2. RowsFit' /\ RetryStays
  BY <1>1, RowsStay DEF InvParts, RowsFit, Recorded, Succeeded, RetryStays, Known, Is
<1>3. cont' \in Cont /\ cont'.node \in {"verify_repair", "target_inspection"}
  BY <1>1 DEF VerifyRepair, Queued, Blocked, Cont
<1>4. \/ attempt' = attempt /\ cont'.node = cont.node
      \/ attempt' = "migration_retried"
  BY <1>1 DEF VerifyRepair, Blocked, Cont
<1> QED
  BY <1>1, <1>2, <1>3, <1>4, Parts
     DEF InvParts, RestTyped, UpdateFits, RetryStays, ClosureBound, ClosedOnExactTree

-----------------------------------------------------------------------------
(* Commands that end, wakes, requests and other writers. *)

\* Whatever a command does, the workspace has a content.
LEMMA EffectsTyped ==
  ASSUME ws \in Content, NEW k, IsKey(k), NEW w \in Effects(k)
  PROVE  w \in Content
<1> DEFINE V == {"none", "old", "exact"}
<1>1. /\ ws.declared \in [Packages -> V] /\ ws.installed \in [Packages -> V]
      /\ ws = [declared |-> ws.declared, installed |-> ws.installed, core |-> ws.core,
               consistent |-> ws.consistent]
      /\ ws.core \in {"old", "target"} /\ ws.consistent \in BOOLEAN
  BY DEF Content
<1>2. /\ k = Uninstall => k # Retry /\ k # Normalize /\ k # CleanInstall /\ k[1] # "install"
      /\ k = Retry => k # Uninstall /\ k # Normalize /\ k # CleanInstall /\ k[1] # "install"
      /\ k = Normalize => k # Uninstall /\ k # Retry /\ k # CleanInstall /\ k[1] # "install"
      /\ k = CleanInstall => k # Uninstall /\ k # Retry /\ k # Normalize /\ k[1] # "install"
      /\ IsInstall(k) => /\ k # Uninstall /\ k # Retry /\ k # Normalize /\ k # CleanInstall
                         /\ k[1] = "install"
  BY KeysApart
<1>3. CASE k = Uninstall
  <2>1. w \in Removals
    BY <1>2, <1>3 DEF Effects
  <2>2. PICK d \in {"none", ws.declared[Blocking]}, t \in {"none", ws.declared[Blocking]} :
          w = [ws EXCEPT !.declared[Blocking] = d, !.installed[Blocking] = t]
    BY <2>1 DEF Removals
  <2>3. d \in V /\ t \in V
    BY <1>1, Bundles
  <2> QED
    BY <1>1, <2>2, <2>3 DEF Content
<1>4. CASE k = Retry
  <2>1. w \in Updates
    BY <1>2, <1>4 DEF Effects
  <2>2. PICK c \in BOOLEAN, o \in SUBSET Optional :
          w = [declared |-> Without(ws.declared, o), installed |-> Without(ws.installed, o),
               core |-> "target", consistent |-> c]
    BY <2>1 DEF Updates
  <2>3. Without(ws.declared, o) \in [Packages -> V] /\ Without(ws.installed, o) \in [Packages -> V]
    BY <1>1 DEF Without
  <2> QED
    BY <1>1, <2>2, <2>3 DEF Content
<1>5. CASE k = Normalize
  <2>1. w \in Normalizations
    BY <1>2, <1>5 DEF Effects
  <2> QED
    BY <1>1, <2>1 DEF Normalizations, Content
<1>6. CASE k = CleanInstall
  <2>1. w = [ws EXCEPT !.installed = ws.declared]
    BY <1>2, <1>6 DEF Effects
  <2> QED
    BY <1>1, <2>1 DEF Content
<1>7. CASE IsInstall(k)
  <2> DEFINE p == k[3]
  <2>1. w \in Installations(p)
    BY <1>2, <1>7 DEF Effects
  <2> HIDE DEF p
  <2>2. CASE \E t \in {"exact", "old"} :
               w = [ws EXCEPT !.declared[p] = "exact", !.installed[p] = t]
    <3>1. PICK t \in {"exact", "old"} :
            w = [ws EXCEPT !.declared[p] = "exact", !.installed[p] = t]
      BY <2>2
    <3>2. /\ [ws.declared EXCEPT ![p] = "exact"] \in [Packages -> V]
          /\ [ws.installed EXCEPT ![p] = t] \in [Packages -> V]
      BY <1>1
    <3> QED
      BY <1>1, <3>1, <3>2 DEF Content
  <2>3. CASE \E q \in Packages \ {p, Blocking} :
               w = [ws EXCEPT !.declared[p] = "exact", !.installed[p] = "exact",
                              !.installed[q] = "old"]
    <3>1. PICK q \in Packages \ {p, Blocking} :
            w = [ws EXCEPT !.declared[p] = "exact", !.installed[p] = "exact",
                           !.installed[q] = "old"]
      BY <2>3
    <3>2. /\ [ws.declared EXCEPT ![p] = "exact"] \in [Packages -> V]
          /\ [[ws.installed EXCEPT ![p] = "exact"] EXCEPT ![q] = "old"] \in [Packages -> V]
      BY <1>1
    <3> QED
      BY <1>1, <3>1, <3>2 DEF Content
  <2> QED
    BY <2>1, <2>2, <2>3 DEF Installations
<1> QED
  BY <1>3, <1>4, <1>5, <1>6, <1>7 DEF IsKey

\* The rows when a command ends: it is the last that did.
LEMMA EndedRows ==
  ASSUME RowsFit, NEW k \in Active, NEW s \in {"succeeded", "failed", "eresolve"},
         exec' = [exec EXCEPT ![k] = s], ended' = Append(ended, k),
         UNCHANGED <<requested, verified>>
  PROVE  RowsFit'
<1> DEFINE L == Len(ended)
<1>1. /\ Recorded /\ InstallsInOrder /\ InstallRetriedOnce /\ k \in DOMAIN exec
      /\ exec[k] = "active" /\ ended \in Seq(DOMAIN exec)
  BY DEF RowsFit, Recorded, Active
<1>2. /\ DOMAIN exec' = DOMAIN exec /\ exec'[k] = s
      /\ \A x \in DOMAIN exec \ {k} : exec'[x] = exec[x]
  BY <1>1 DEF Recorded
<1>3. L \in Nat /\ DOMAIN ended = 1 .. L
  BY <1>1, LenProperties
<1>4. /\ ended' \in Seq(DOMAIN exec) /\ Len(ended') = L + 1 /\ ended'[L + 1] = k
      /\ \A n \in 1 .. L : ended'[n] = ended[n]
  BY <1>1, AppendProperties
<1>5. DOMAIN ended' = 1 .. (L + 1) /\ \A n \in 1 .. (L + 1) : n \in 1 .. L \/ n = L + 1
  BY <1>3, <1>4, LenProperties
<1>6. Range(ended') = Range(ended) \cup {k}
  <2>1. \A n \in 1 .. L : n \in 1 .. (L + 1)
    BY <1>3
  <2>2. L + 1 \in 1 .. (L + 1)
    BY <1>3
  <2> QED
    BY <1>3, <1>4, <1>5, <2>1, <2>2 DEF Range
<1>7. Range(ended') = {x \in DOMAIN exec' : exec'[x] # "active"}
  BY <1>1, <1>2, <1>6 DEF Recorded
<1>8. Recorded'
  <2>1. exec' \in [DOMAIN exec' -> ExecStatus]
    BY <1>1, <1>2 DEF Recorded, ExecStatus
  <2>2. verified' \subseteq {x \in DOMAIN exec' : exec'[x] = "succeeded"}
    BY <1>1, <1>2 DEF Recorded
  <2>3. \A i, j \in Active' : i = j
    BY <1>1, <1>2 DEF Recorded, Active
  <2> QED
    BY <1>1, <1>2, <1>4, <1>7, <2>1, <2>2, <2>3 DEF Recorded
<1>9. InstallsInOrder'
  BY <1>1 DEF InstallsInOrder
<1>10. InstallRetriedOnce'
  <2> SUFFICES ASSUME NEW j \in Installs, Generation(j) = 2
               PROVE  \E m, n \in 1 .. (L + 1) :
                        /\ ended'[m] = [j EXCEPT ![4] = 1] /\ ended'[n] = Normalize /\ m < n
                        /\ \A x \in 1 .. (L + 1) : ended'[x] = j => n < x
    <3>1. Installs' = Installs
      BY <1>2 DEF Installs
    <3>2. \A j \in Installs : Generation(j) <= 2
      BY <1>1 DEF InstallRetriedOnce
    <3> QED
      BY <1>5, <3>1, <3>2 DEF InstallRetriedOnce, Generation
  <2>1. PICK m \in 1 .. L, n \in 1 .. L :
          /\ ended[m] = [j EXCEPT ![4] = 1] /\ ended[n] = Normalize /\ m < n
          /\ \A x \in 1 .. L : ended[x] = j => n < x
    BY <1>1, <1>3 DEF InstallRetriedOnce
  <2>2. m \in 1 .. (L + 1) /\ n \in 1 .. (L + 1) /\ n < L + 1
    BY <1>3
  <2> QED
    BY <1>4, <1>5, <2>1, <2>2
<1> QED
  BY <1>8, <1>9, <1>10 DEF RowsFit

\* A command ends while nobody else runs.
LEMMA EndKeeps ==
  ASSUME DependencyInv, NEW k \in DOMAIN exec, CommandEnds(k)
  PROVE  DependencyInv'
<1>1. /\ InvParts /\ RowsFit /\ Recorded /\ ws \in Content /\ k \in Active /\ IsKey(k)
      /\ UNCHANGED <<bound, cont, attempt, requested, verified, update, ci, closed, budget>>
      /\ ended' = Append(ended, k)
  BY Parts DEF InvParts, RowsFit, Recorded, RestTyped, CommandEnds, Is, Known, Active
<1>2. PICK s \in {"succeeded", "failed", "eresolve"} : exec' = [exec EXCEPT ![k] = s]
  BY DEF CommandEnds
<1>3. ws' \in Content
  BY <1>1, EffectsTyped DEF CommandEnds
<1>4. RowsFit'
  BY <1>1, <1>2, EndedRows
<1>5. /\ Known(Retry)' = Known(Retry)
      /\ Is(Retry, "succeeded") => Is(Retry, "succeeded")'
      /\ ~ Is(Retry, "active")'
  <2>1. DOMAIN exec' = DOMAIN exec /\ exec'[k] # "active" /\ exec[k] = "active"
    BY <1>1, <1>2 DEF Recorded, Active
  <2>2. \A x \in DOMAIN exec \ {k} : exec'[x] = exec[x] /\ exec[x] # "active"
    BY <1>1, <1>2 DEF Recorded, Active
  <2> QED
    BY <2>1, <2>2 DEF Known, Is
<1>6. UpdateFits'
  BY <1>1, <1>5 DEF InvParts, UpdateFits
<1>7. RestTyped' /\ ClosureBound' /\ ClosedOnExactTree'
  BY <1>1, <1>3 DEF InvParts, RestTyped, ClosureBound, ClosedOnExactTree
<1> QED
  BY <1>4, <1>6, <1>7, Parts DEF InvParts

\* Wakes and restarts queue the row where it stands.
LEMMA RequeueKeeps ==
  ASSUME DependencyInv, Wake \/ Restart
  PROVE  DependencyInv'
<1>1. /\ InvParts /\ cont \in Cont /\ cont' = [cont EXCEPT !.status = "queued"]
      /\ budget' \in [requests : Nat, drift : Nat]
      /\ UNCHANGED <<ws, bound, attempt, exec, requested, ended, verified, update, ci, closed>>
  BY Parts DEF InvParts, RestTyped, Wake, Restart
<1>2. cont' \in Cont /\ cont'.node = cont.node
  BY <1>1 DEF Cont
<1>3. RowsFit' /\ RetryStays
  BY <1>1, RowsStay DEF InvParts, RowsFit, Recorded, Succeeded, RetryStays, Known, Is
<1> QED
  BY <1>1, <1>2, <1>3, Parts
     DEF InvParts, RestTyped, UpdateFits, RetryStays, ClosureBound, ClosedOnExactTree

\* Others touch the workspace while no command runs.
LEMMA DriftKeeps ==
  ASSUME DependencyInv, Drift
  PROVE  DependencyInv'
<1>1. /\ InvParts /\ ws \in Content /\ Active = {} /\ budget' \in [requests : Nat, drift : Nat]
      /\ UNCHANGED <<bound, cont, attempt, exec, requested, ended, verified, update, ci, closed>>
  BY Parts DEF InvParts, RestTyped, Drift
<1>2. PICK p \in Packages, v \in {"none", "old"} :
        ws' = [ws EXCEPT !.declared[p] = v] \/ ws' = [ws EXCEPT !.installed[p] = v]
  BY DEF Drift
<1>3. ws' \in Content
  BY <1>1, <1>2 DEF Content
<1>4. RowsFit' /\ RetryStays /\ ~ Is(Retry, "active")
  BY <1>1, RowsStay
     DEF InvParts, RowsFit, Recorded, Succeeded, RetryStays, Known, Is, Active
<1> QED
  BY <1>1, <1>3, <1>4, Parts
     DEF InvParts, RestTyped, UpdateFits, RetryStays, ClosureBound, ClosedOnExactTree

-----------------------------------------------------------------------------
(* The invariant and what follows from it. *)

\* Nothing has been queued yet.
LEMMA InitHolds ==
  ASSUME Init
  PROVE  DependencyInv
<1>1. /\ DOMAIN exec = {} /\ requested = <<>> /\ ended = <<>> /\ verified = {} /\ closed = {}
      /\ exec = [k \in {} |-> "active"]
  BY DEF Init
<1>2. <<>> \in Seq({}) /\ DOMAIN <<>> = {} /\ Range(<<>>) = {}
  BY EmptySeq DEF Range
<1>3. Recorded
  BY <1>1, <1>2 DEF Recorded, Active, IsInjective
<1>4. InstallsInOrder /\ InstallRetriedOnce /\ ClosedOnExactTree
  BY <1>1, <1>2 DEF InstallsInOrder, InstallRetriedOnce, Installs, ClosedOnExactTree
<1>5. ws \in Content /\ bound \in Fingerprints
  BY DEF Init, Content, Fingerprints, Fingerprint
<1>6. RestTyped
  BY <1>1, <1>5 DEF Init, RestTyped, Cont
<1>7. UpdateFits /\ ClosureBound
  BY <1>1 DEF Init, UpdateFits, ClosureBound, Known, Is
<1> QED
  BY <1>3, <1>4, <1>6, <1>7 DEF DependencyInv

\* Every step keeps the invariant.
LEMMA StepKeeps ==
  ASSUME DependencyInv, [Next]_vars
  PROVE  DependencyInv'
<1>1. CASE UNCHANGED vars
  BY <1>1 DEF vars, DependencyInv, Recorded, RestTyped, UpdateFits, ClosureBound, Known, Is,
              InstallsInOrder, InstallRetriedOnce, Installs, Active, ClosedOnExactTree
<1>2. CASE Node
  BY <1>2, UninstallKeeps, UpdateKeeps, PromptKeeps, NormalizeKeeps, InstallKeeps, CiKeeps,
     ClosureKeeps, VerdictKeeps DEF Node
<1>3. CASE Commands
  BY <1>3, EndKeeps DEF Commands
<1>4. CASE Wake \/ Restart \/ Drift
  BY <1>4, RequeueKeeps, DriftKeeps
<1> QED
  BY <1>1, <1>2, <1>3, <1>4 DEF Next

\* What every reachable state of the operation satisfies.
THEOREM DependencyCorrect == Spec => []DependencyInv
<1>1. Init => DependencyInv
  BY InitHolds
<1>2. DependencyInv /\ [Next]_vars => DependencyInv'
  BY StepKeeps
<1> QED
  BY <1>1, <1>2, PTL DEF Spec

\* The rows, the workspace and the attempt keep their shapes.
THEOREM TypeCorrect == Spec => []TypeOK
<1>1. DependencyInv => TypeOK
  BY DEF DependencyInv, TypeOK, Recorded, RestTyped, Fingerprints, Cont
<1> QED
  BY <1>1, DependencyCorrect, PTL

\* queue_angular_update_retry starts the update only on a workspace without the package that
\* blocked it.
THEOREM UpdateRunsDetachedAlways == Spec => []UpdateRunsDetached
<1>1. DependencyInv => UpdateRunsDetached
  BY DEF DependencyInv, UpdateFits, UpdateRunsDetached, Is
<1> QED
  BY <1>1, DependencyCorrect, PTL

\* _phase_install tries a member a second time only after a normalization that followed its
\* failure, and never a third time.
THEOREM InstallRetriedOnceAlways == Spec => []InstallRetriedOnce
<1>1. DependencyInv => InstallRetriedOnce
  BY DEF DependencyInv
<1> QED
  BY <1>1, DependencyCorrect, PTL

\* _phase_closure accepts only a tree with every required member exact under the target.
THEOREM ClosedOnExactTreeAlways == Spec => []ClosedOnExactTree
<1>1. DependencyInv => ClosedOnExactTree
  BY DEF DependencyInv
<1> QED
  BY <1>1, DependencyCorrect, PTL

\* _verify_repair accepts an attempt only on the workspace its closure was verified on.
THEOREM AcceptedAsClosedAlways == Spec => AcceptedAsClosed
<1> DEFINE A == attempt' = "migration_retried" /\ attempt # attempt' =>
                  \E w \in closed : Fingerprint(ws) = Fingerprint(w)
<1>1. DependencyInv /\ [Next]_vars => [A]_vars
  <2> SUFFICES ASSUME DependencyInv, Next, attempt' = "migration_retried", attempt # attempt'
               PROVE  \E w \in closed : Fingerprint(ws) = Fingerprint(w)
    OBVIOUS
  <2>1. VerifyRepair
    BY DEF Next, Node, PhaseUninstall, PhaseUpdate, HandlePrompt, PhaseNormalize, PhaseInstall,
           PhaseCi, PhaseClosure, Commands, CommandEnds, Wake, Restart, Drift
  <2>2. attempt = "applied_verified" /\ Fingerprint(ws) = bound
    BY <2>1 DEF VerifyRepair, StillCanonical
  <2> QED
    BY <2>2 DEF DependencyInv, ClosureBound
<1> QED
  BY <1>1, DependencyCorrect, PTL DEF Spec, AcceptedAsClosed
==============================================================================
