------------------------------- MODULE Cache --------------------------------
(***************************************************************************)
(* The lifetimes of cached answers: one key of the cache of                *)
(* middleware/cache.go.                                                    *)
(*                                                                         *)
(* An entry keeps the wall clock's second at which it was stored, and a    *)
(* hit takes the whole seconds since then off every lifetime.  A reader    *)
(* copies the entry out of the backend first and looks at the clock later; *)
(* writers, evictions, the administrator and steps of the clock come in    *)
(* between.  A response is abstracted to the lifetimes of its records:     *)
(* those of the answer, and those of the two other sections together.      *)
(***************************************************************************)
EXTENDS Integers, Sequences

CONSTANTS
    Readers,        \* queries that may look the key up at the same time
    NoEntry,
    Responses,      \* what an upstream may answer
    Ttl,            \* cache.ttl, in seconds; 0 is no limit
    Fraction,       \* clock ticks in a second
    MaxSec,         \* bound: seconds in a behaviour
    MaxBack         \* bound: seconds by which the clock is ever set back

Lifetimes == 0..MaxSec + 2
Sections == [answer : Seq(Lifetimes), other : Seq(Lifetimes)]

ASSUME CacheAssumption ==
    /\ Fraction \in Nat \ {0}
    /\ {Ttl, MaxSec, MaxBack} \subseteq Nat
    /\ Responses \subseteq Sections

VARIABLES
    real,       \* ticks that have really passed
    back,       \* seconds by which the wall clock has been set back
    entry,      \* the backend's entry for the key
    pc,         \* where each reader is
    raw,        \* the entry a reader has copied
    served      \* the response of the last hit, with the entry it is from

vars == <<real, back, entry, pc, raw, served>>

\* An entry.  born and from are history: when and from what it was made.
Entry == [cachedAt : Int, answer : Seq(Lifetimes), other : Seq(Lifetimes),
          born : Nat, from : Responses]
Hit == [at : Nat, answer : Seq(Lifetimes), other : Seq(Lifetimes), entry : Entry]

TypeOK ==
    /\ real \in Nat
    /\ back \in 0..MaxBack
    /\ entry \in Entry \cup {NoEntry}
    /\ pc \in [Readers -> {"idle", "got", "delete"}]
    /\ raw \in [Readers -> Entry \cup {NoEntry}]
    /\ served \in Hit \cup {NoEntry}

Init ==
    /\ real = 0
    /\ back = 0
    /\ entry = NoEntry
    /\ pc = [r \in Readers |-> "idle"]
    /\ raw = [r \in Readers |-> NoEntry]
    /\ served = NoEntry

\* time.Now().Unix(), and the age of an entry in whole seconds.
Second == real \div Fraction - back
Started(e) == real - Fraction * back > Fraction * e.cachedAt
Elapsed(e) == Second - e.cachedAt

Tick ==
    /\ real < Fraction * MaxSec
    /\ real' = real + 1
    /\ UNCHANGED <<back, entry, pc, raw, served>>

\* The wall clock is corrected.
SetBack ==
    /\ back < MaxBack
    /\ back' = back + 1
    /\ UNCHANGED <<real, entry, pc, raw, served>>

-----------------------------------------------------------------------------
(* Cache.Set.                                                              *)

\* cacheableAnswers: there is an answer, and every record of it has a life.
Cacheable(ttls) == ttls # <<>> /\ \A i \in 1..Len(ttls) : ttls[i] > 0

\* capSectionTTLs.
CapTTLs(ttls) == [i \in 1..Len(ttls) |-> IF Ttl > 0 /\ ttls[i] > Ttl THEN Ttl ELSE ttls[i]]

Set ==
    \E m \in Responses :
      /\ Cacheable(m.answer)
      /\ entry' = [cachedAt |-> Second,
                   answer |-> CapTTLs(m.answer),
                   other |-> CapTTLs(m.other),
                   born |-> real,
                   from |-> m]
      /\ UNCHANGED <<real, back, pc, raw, served>>

-----------------------------------------------------------------------------
(* CacheGet.Run.                                                           *)

\* backend.Get finds the key.  (A miss changes nothing.)
Get(r) ==
    /\ pc[r] = "idle"
    /\ entry # NoEntry
    /\ raw' = [raw EXCEPT ![r] = entry]
    /\ pc' = [pc EXCEPT ![r] = "got"]
    /\ UNCHANGED <<real, back, entry, served>>

\* adjustSectionTTLs with requireAll: no record of the answer has run out.
AllAlive(e) == \A i \in 1..Len(e.answer) : e.answer[i] > Elapsed(e)

\* Mutant: lives are not reduced.
ReducedNot(ttls, elapsed) == ttls

\* adjustSectionTTLs: the time since the entry was stored is taken off ...
Reduced(ttls, elapsed) == [i \in 1..Len(ttls) |-> ttls[i] - elapsed]

\* ... and without requireAll, records that have run out are left out.
Adjusted(ttls, elapsed) == Reduced(SelectSeq(ttls, LAMBDA t : t > elapsed), elapsed)

\* responseFromEntry, with a response.  Nothing is taken off while the clock
\* shows the time of the entry or an earlier one.
Serve(r) ==
    LET e == raw[r]
        off == IF Started(e) THEN Elapsed(e) ELSE 0
    IN  /\ pc[r] = "got"
        /\ Started(e) => AllAlive(e)
        /\ served' = [at |-> real,
                      answer |-> IF Started(e) THEN Reduced(e.answer, off) ELSE e.answer,
                      other |-> IF Started(e) THEN Adjusted(e.other, off) ELSE e.other,
                      entry |-> e]
        /\ raw' = [raw EXCEPT ![r] = NoEntry]
        /\ pc' = [pc EXCEPT ![r] = "idle"]
        /\ UNCHANGED <<real, back, entry>>

\* responseFromEntry, without: the entry has run out ...
Expired(r) ==
    /\ pc[r] = "got"
    /\ Started(raw[r]) /\ ~AllAlive(raw[r])
    /\ raw' = [raw EXCEPT ![r] = NoEntry]
    /\ pc' = [pc EXCEPT ![r] = "delete"]
    /\ UNCHANGED <<real, back, entry, served>>

\* ... and is deleted, with whatever has been stored under the key since.
Delete(r) ==
    /\ pc[r] = "delete"
    /\ entry' = NoEntry
    /\ pc' = [pc EXCEPT ![r] = "idle"]
    /\ UNCHANGED <<real, back, raw, served>>

\* Cache.Clear, and the backend's own eviction at any time.
Clear ==
    /\ entry # NoEntry
    /\ entry' = NoEntry
    /\ UNCHANGED <<real, back, pc, raw, served>>

Next ==
    \/ Tick \/ SetBack \/ Set \/ Clear
    \/ \E r \in Readers : Get(r) \/ Serve(r) \/ Expired(r) \/ Delete(r)

Spec == Init /\ [][Next]_vars

-----------------------------------------------------------------------------
(* Properties, of every hit.                                               *)

Hits == {served} \ {NoEntry}

\* A hit has every record of the upstream's answer, each with some life left
\* and none above cache.ttl, the "cache lifetime and maximum returned TTL"
\* (docs/configuration.md): never a part of a record set, never a lifetime of
\* zero.  And a client that keeps it for as long as it is told to lets go of it
\* less than a second after the upstream's own lifetime is over, whatever the
\* fractions of the two seconds, or later by what the clock was set back.
HitsWholeAndFresh ==
    \A h \in Hits :
      /\ Len(h.answer) = Len(h.entry.from.answer)
      /\ \A i \in 1..Len(h.answer) :
           /\ h.answer[i] > 0
           /\ Ttl > 0 => h.answer[i] <= Ttl
           /\ h.at + Fraction * h.answer[i] <
                h.entry.born + Fraction * (h.entry.from.answer[i] + 1 + back)
=============================================================================
