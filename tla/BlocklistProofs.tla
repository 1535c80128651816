--------------------------- MODULE BlocklistProofs --------------------------
(***************************************************************************)
(* The safety properties of Blocklist for every repository, every set of   *)
(* rules and every bound.                                                  *)
(***************************************************************************)
EXTENDS Blocklist, TLAPS

\* Numbers are numbers, and the lock is held exactly while there is work.
Numbers ==
    /\ head \in Revisions /\ file \in Files /\ state \in Files /\ revision \in Files
    /\ refreshMu = "free" <=> step = "none"

\* The sidecar, the file, the revision under way and the branch are in order.
Ordered ==
    /\ state <= file /\ file <= head /\ revision <= head
    /\ step \in {"download", "validate", "rename"} => file <= revision
    /\ step \in {"install", "record"} => revision = file

\* Nothing that validation refused gets past it.
Validated ==
    /\ file \in Valid \cup {0} /\ state \in Valid \cup {0}
    /\ step \in {"rename", "install", "record"} => revision \in Valid

\* Without a process there is no tree and no work; a tree under preparation is the one of
\* its revision under the rules in use; and the active one, as long as the file
\* under it has not been replaced, is the one of the file.
Idle == {"none", "resolve", "download", "validate", "rename"}
TreeOfFile ==
    /\ ~up => hole = NoTree /\ step = "none"
    /\ step \in {"rename", "install"} => prepared = BuildHole(revision, TRUE)
    /\ step = "record" => hole = BuildHole(file, TRUE)
    /\ (hole # NoTree /\ ~stale /\ step \in Idle) =>
            hole \in {BuildHole(file, TRUE), BuildHole(file, FALSE)}

\* What every step preserves.
IInv == Numbers /\ Ordered /\ Validated /\ TreeOfFile

LEMMA NumbersAreNats ==
    Numbers => head \in Nat /\ file \in Nat /\ state \in Nat /\ revision \in Nat
BY BlocklistAssumption DEF Numbers, Revisions, Files, BlocklistAssumption

LEMMA InitIInv == Init => IInv
<1> SUFFICES ASSUME Init PROVE IInv
    OBVIOUS
<1>1. Numbers
    BY BlocklistAssumption DEF Init, Numbers, Revisions, Files, BlocklistAssumption
<1>2. Ordered
    BY BlocklistAssumption DEF Init, Ordered, Revisions, BlocklistAssumption
<1>3. Validated
    BY DEF Init, Validated
<1>4. TreeOfFile
    BY DEF Init, TreeOfFile
<1> QED
    BY <1>1, <1>2, <1>3, <1>4 DEF IInv

\* BuildHole depends on the rules only.
LEMMA SameRules ==
    ASSUME UNCHANGED rules, NEW r, NEW strict
    PROVE  BuildHole(r, strict)' = BuildHole(r, strict)
BY DEF rules, BuildHole

\* The end of the process leaves the files and their order alone.
LEMMA DownIInv == IInv /\ Down => IInv'
<1> SUFFICES ASSUME IInv, Down PROVE IInv'
    OBVIOUS
<1>1. Numbers'
    BY BlocklistAssumption DEF IInv, Numbers, Down, disk, Files, BlocklistAssumption
<1>2. Ordered'
    BY NumbersAreNats, BlocklistAssumption
    DEF IInv, Numbers, Ordered, Down, disk, Revisions, BlocklistAssumption
<1>3. Validated'
    BY DEF IInv, Validated, Down, disk
<1>4. TreeOfFile'
    BY DEF TreeOfFile, Down
<1> QED
    BY <1>1, <1>2, <1>3, <1>4 DEF IInv

LEMMA NextIInv == IInv /\ [Next]_vars => IInv'
<1> SUFFICES ASSUME IInv, [Next]_vars PROVE IInv'
    OBVIOUS
<1>0. head \in Nat /\ file \in Nat /\ state \in Nat /\ revision \in Nat
    BY NumbersAreNats DEF IInv
<1> USE DEF IInv
<1>1. CASE Start
  <2>1. hole' = NoTree
    BY <1>1 DEF Start, TreeOfFile
  <2>2. Numbers' /\ Ordered' /\ Validated'
    BY <1>0, <1>1 DEF Start, Numbers, Ordered, Validated, disk
  <2>3. TreeOfFile'
    BY <1>1, <2>1 DEF Start, TreeOfFile
  <2> QED
    BY <2>2, <2>3
<1>2. CASE Crash
    BY <1>2, DownIInv DEF Crash
<1>3. CASE Push
  <2>1. Numbers' /\ Validated'
    BY <1>3 DEF Push, Numbers, Validated, disk, refreshing
  <2>2. Ordered'
    BY <1>0, <1>3 DEF Push, Ordered, disk, refreshing
  <2>3. TreeOfFile'
    BY <1>3, SameRules DEF Push, TreeOfFile, disk, refreshing, rules, BuildHole, Idle
  <2> QED
    BY <2>1, <2>2, <2>3
<1>4. CASE RefreshStart
  <2>1. Numbers' /\ Ordered' /\ Validated'
    BY <1>0, <1>4 DEF RefreshStart, Numbers, Ordered, Validated, disk
  <2>2. TreeOfFile'
    BY <1>4 DEF RefreshStart, TreeOfFile, Numbers, disk, rules, BuildHole, Idle
  <2> QED
    BY <2>1, <2>2
<1>5. CASE ResolveRevision
  <2>1. Numbers'
    BY <1>5, BlocklistAssumption
    DEF ResolveRevision, Release, Numbers, disk, Revisions, Files, BlocklistAssumption
  <2>2. Ordered'
    BY <1>0, <1>5 DEF ResolveRevision, Release, Ordered, disk
  <2>3. Validated'
    BY <1>5 DEF ResolveRevision, Release, Validated, disk
  <2>4. TreeOfFile'
    BY <1>5 DEF ResolveRevision, Release, TreeOfFile, disk, rules, BuildHole, Idle
  <2> QED
    BY <2>1, <2>2, <2>3, <2>4
<1>6. CASE Download
  <2>1. Numbers' /\ Ordered' /\ Validated'
    BY <1>0, <1>6 DEF Download, Numbers, Ordered, Validated, disk
  <2>2. TreeOfFile'
    BY <1>6 DEF Download, TreeOfFile, disk, rules, BuildHole, Idle
  <2> QED
    BY <2>1, <2>2
<1>7. CASE Validate
  <2>1. Numbers' /\ Ordered' /\ Validated'
    BY <1>0, <1>7 DEF Validate, Numbers, Ordered, Validated, disk
  <2>2. TreeOfFile'
    BY <1>7 DEF Validate, TreeOfFile, disk, rules, BuildHole, Idle
  <2> QED
    BY <2>1, <2>2
<1>8. CASE Rename
  <2>1. Numbers' /\ Ordered' /\ Validated'
    BY <1>0, <1>8 DEF Rename, Numbers, Ordered, Validated
  <2>2. TreeOfFile'
    BY <1>8 DEF Rename, TreeOfFile, rules, BuildHole, Idle
  <2> QED
    BY <2>1, <2>2
<1>9. CASE Install
  <2>1. Numbers' /\ Ordered' /\ Validated'
    BY <1>0, <1>9 DEF Install, Numbers, Ordered, Validated, disk
  <2>2. hole' = BuildHole(file, TRUE)
    BY <1>9 DEF Install, TreeOfFile, Ordered
  <2>3. TreeOfFile'
    BY <1>9, <2>2 DEF Install, TreeOfFile, disk, rules, BuildHole, Idle
  <2> QED
    BY <2>1, <2>3
<1>10. CASE WriteRevision
  <2>1. Numbers'
    BY <1>10, BlocklistAssumption
    DEF WriteRevision, Release, Numbers, Files, BlocklistAssumption
  <2>2. Ordered'
    BY <1>0, <1>10, BlocklistAssumption
    DEF WriteRevision, Release, Ordered, Numbers, Revisions, BlocklistAssumption
  <2>3. Validated'
    BY <1>10 DEF WriteRevision, Release, Validated
  <2>4. TreeOfFile'
    BY <1>10 DEF WriteRevision, Release, TreeOfFile, rules, BuildHole, Idle
  <2> QED
    BY <2>1, <2>2, <2>3, <2>4
<1>11. CASE RefreshFail
  <2>1. CASE Down
    BY <2>1, DownIInv
  <2>2. CASE Abandon
    <3>1. Numbers' /\ Validated'
      BY <2>2, BlocklistAssumption
      DEF Abandon, Numbers, Validated, disk, Files, BlocklistAssumption
    <3>2. Ordered'
      BY <1>0, <2>2, BlocklistAssumption
      DEF Abandon, Ordered, Numbers, disk, Revisions, BlocklistAssumption
    <3>3. step \in Idle
      BY <1>11 DEF RefreshFail, Idle
    <3>4. TreeOfFile'
      BY <2>2, <3>3 DEF Abandon, TreeOfFile, disk, rules, BuildHole, Idle
    <3> QED
      BY <3>1, <3>2, <3>4
  <2> QED
    BY <1>11, <2>1, <2>2 DEF RefreshFail
<1>12. ASSUME NEW hosts \in HostSets, ReplacePersistedHosts(hosts) PROVE IInv'
  <2>1. Numbers' /\ Ordered' /\ Validated'
    BY <1>0, <1>12 DEF ReplacePersistedHosts, Numbers, Ordered, Validated, disk
  <2>2. TreeOfFile'
    BY <1>12 DEF ReplacePersistedHosts, Request, TreeOfFile, disk, Idle
  <2> QED
    BY <2>1, <2>2
<1>13. ASSUME NEW domains \in ExcludeSets, ReplacePersistedExcludes(domains) PROVE IInv'
  <2>1. Numbers' /\ Ordered' /\ Validated'
    BY <1>0, <1>13 DEF ReplacePersistedExcludes, Numbers, Ordered, Validated, disk
  <2>2. TreeOfFile'
    BY <1>13 DEF ReplacePersistedExcludes, Request, TreeOfFile, disk, Idle
  <2> QED
    BY <2>1, <2>2
<1>14. CASE ReloadHole
  <2>1. Numbers' /\ Ordered' /\ Validated'
    BY <1>0, <1>14 DEF ReloadHole, Numbers, Ordered, Validated, disk
  <2>2. TreeOfFile'
    BY <1>14 DEF ReloadHole, TreeOfFile, disk, rules, BuildHole, Idle
  <2> QED
    BY <2>1, <2>2
<1>15. CASE ReloadHoleFail
  <2>1. CASE Down
    BY <2>1, DownIInv
  <2>2. CASE ~Down
    <3>1. Numbers' /\ Ordered' /\ Validated'
      BY <1>0, <1>15, <2>2 DEF ReloadHoleFail, Numbers, Ordered, Validated, disk
    <3>2. TreeOfFile'
      BY <1>15, <2>2 DEF ReloadHoleFail, TreeOfFile
    <3> QED
      BY <3>1, <3>2
  <2> QED
    BY <2>1, <2>2
<1>16. ASSUME NEW d \in Domains, AddRuntimeWhitelist(d) PROVE IInv'
  <2>1. Numbers' /\ Ordered' /\ Validated'
    BY <1>0, <1>16 DEF AddRuntimeWhitelist, Numbers, Ordered, Validated, disk, refreshing
  <2>2. TreeOfFile'
    BY <1>16 DEF AddRuntimeWhitelist, TreeOfFile, disk, rules, refreshing, BuildHole, Idle
  <2> QED
    BY <2>1, <2>2
<1>17. CASE UNCHANGED vars
  <2>1. Numbers' /\ Ordered' /\ Validated'
    BY <1>0, <1>17 DEF vars, Numbers, Ordered, Validated, disk, refreshing
  <2>2. TreeOfFile'
    BY <1>17 DEF vars, TreeOfFile, disk, rules, refreshing, BuildHole, Idle
  <2> QED
    BY <2>1, <2>2
<1> QED
    BY <1>1, <1>2, <1>3, <1>4, <1>5, <1>6, <1>7, <1>8, <1>9, <1>10, <1>11, <1>12, <1>13, <1>14,
       <1>15, <1>16, <1>17 DEF Next, RefreshStep

THEOREM Invariance == Spec => []IInv
BY InitIInv, NextIInv, PTL DEF Spec

\* The sidecar never names a newer revision than the file has, so that a crash
\* between rename and WriteRevision costs a download and never an update.
THEOREM SidecarNeverAhead == Spec => []RevisionNeverAhead
<1>1. IInv => RevisionNeverAhead
    BY DEF IInv, Ordered, RevisionNeverAhead
<1> QED
    BY Invariance, <1>1, PTL

\* What validation refuses is never active: a failed refresh leaves the file.
THEOREM RefusedNeverActive == Spec => []OnlyValidActive
<1>1. IInv => OnlyValidActive
    BY DEF IInv, Validated, OnlyValidActive
<1> QED
    BY Invariance, <1>1, PTL

\* The tree is the one of the file and of the rules in use, whenever refreshMu
\* is free and the last rebuild did not fail.
THEOREM TreeFollowsFile == Spec => []HoleFollowsFile
<1>1. IInv => HoleFollowsFile
    BY DEF IInv, Numbers, TreeOfFile, Idle, HoleFollowsFile
<1> QED
    BY Invariance, <1>1, PTL
=============================================================================
