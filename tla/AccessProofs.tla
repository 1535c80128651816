---------------------------- MODULE AccessProofs ----------------------------
(***************************************************************************)
(* Proofs about who is let in.  BrowserAuth: for any number of requests,   *)
(* codes, sessions and tokens, any lifetimes and any limits of the store.  *)
(* Deployment: for any number of runs of tdns config and of commands.      *)
(* ApiAccess: for any number of keys and rotations, any lifetimes,         *)
(* overlaps and leeway.                                                    *)
(***************************************************************************)
EXTENDS BrowserAuth, ApiAccess, Deployment, FiniteSetTheorems, SequenceTheorems, TLAPS


LEMMA Numbers ==
    /\ CodeTTL \in Nat /\ CodeTTL > 0
    /\ MaxCSRFTokens \in Nat /\ MaxCSRFTokens > 0
    /\ Lifetimes \subseteq Nat
    /\ MaxTime \in Nat /\ MaxSessions \in Nat /\ MaxTokens \in Nat /\ MaxRotations \in Nat
    /\ None \notin Nat /\ None \notin Codes
BY BrowserAuthAssumption DEF BrowserAuthAssumption

\* What a waiting handler works with: a code that was issued.
HandlerInv ==
    \A h \in Handlers : pc[h] = "redeem" => arg[h] \in Codes /\ expiry[arg[h]] \in Nat

\* Sessions and tokens are numbered, and there are as many as were counted.
CountInv ==
    /\ IsFiniteSet(tokens)
    /\ arg = [h \in Handlers |-> arg[h]]
    /\ \A s \in sessions : s.id <= created
    /\ \A t \in tokens : t.session <= created
    /\ \A c \in Codes : redeemed[c] <= created

\* A code in the table was issued, and the purge works with a time that has been.
\* A code that made a session is in the table until it has run out.
RedeemInv ==
    /\ purgeNow <= now
    /\ \A c \in consumed : expiry[c] \in Nat
    /\ \A c \in Codes \ late :
        redeemed[c] = 0 \/ /\ redeemed[c] = 1
                           /\ expiry[c] \in Nat
                           /\ c \in consumed \/ expiry[c] <= now

BaseInv == TypeOK /\ HandlerInv /\ CountInv

-----------------------------------------------------------------------------
(* The steps of the store that several actions share.                      *)

\* Sessions are deleted with their tokens: the rest is typed as before.
LEMMA WithoutBase ==
    ASSUME TypeOK, CountInv, NEW gone, gone \subseteq sessions, Without(gone)
    PROVE  /\ sessions' \subseteq sessions /\ csrf' \subseteq csrf
           /\ \A t \in csrf \ csrf' : \E s \in gone : t.session = s.id
BY DEF Without

\* A deleted session takes its tokens along, and no other session loses one.
LEMMA WithoutTokens ==
    ASSUME TypeOK, CountInv, RecentTokensKept, NEW gone, gone \subseteq sessions,
           Without(gone), tokens' = tokens
    PROVE  RecentTokensKept'
<1>1. sessions' = sessions \ gone /\ csrf' = {t \in csrf : \A s \in gone : t.session # s.id}
    BY DEF Without
<1>2. ASSUME NEW s \in sessions'
      PROVE  {t \in csrf' : t.session = s.id} = {t \in csrf : t.session = s.id}
    BY <1>1 DEF TypeOK
<1>3. \A s \in sessions' : Cardinality({t \in csrf' : t.session = s.id}) <= MaxCSRFTokens
    BY <1>1, <1>2 DEF RecentTokensKept
<1>4. \A t \in csrf' : \E s \in sessions' : s.id = t.session
    BY <1>1 DEF RecentTokensKept
<1>5. ASSUME NEW t \in tokens', NEW s \in sessions', t.session = s.id, t \notin csrf'
      PROVE  Cardinality({u \in tokens' \ {t} : u.session = s.id /\ u.created >= t.created})
                >= MaxCSRFTokens
    <2>1. t \notin csrf
        BY <1>1, <1>5 DEF TypeOK
    <2> QED
        BY <1>1, <1>5, <2>1 DEF RecentTokensKept
<1> QED
    BY <1>3, <1>4, <1>5 DEF RecentTokensKept

\* The tokens of a session, without t, that are not older than t.
Younger(set, t, id) == {u \in set \ {t} : u.session = id /\ u.created >= t.created}

\* More tokens in all are not fewer that came after a given one.
LEMMA YoungerGrow ==
    ASSUME NEW S, NEW T, IsFiniteSet(T), S \subseteq T, NEW t, NEW id,
           NEW n \in Nat, Cardinality(Younger(S, t, id)) >= n
    PROVE  Cardinality(Younger(T, t, id)) >= n
<1>1. Younger(S, t, id) \subseteq Younger(T, t, id) /\ Younger(T, t, id) \subseteq T
    BY DEF Younger
<1>2. IsFiniteSet(Younger(T, t, id))
    BY <1>1, FS_Subset
<1>3. /\ IsFiniteSet(Younger(S, t, id))
      /\ Cardinality(Younger(S, t, id)) <= Cardinality(Younger(T, t, id))
    BY <1>1, <1>2, FS_Subset
<1>4. Cardinality(Younger(S, t, id)) \in Nat /\ Cardinality(Younger(T, t, id)) \in Nat
    BY <1>2, <1>3, FS_CardinalityType
<1> QED
    BY <1>3, <1>4

\* The numbers of a new session and of its first token are new.
LEMMA InsertBase ==
    ASSUME BaseInv, NEW h \in Handlers, NEW method \in {"browser_code", "password"},
           NEW hash \in 0..MaxRotations, InsertSession(h, method, hash)
    PROVE  /\ sessions' \subseteq Session
           /\ \A s, t \in sessions' : s.id = t.id => s = t
           /\ csrf' \subseteq tokens' /\ tokens' \subseteq Token /\ IsFiniteSet(tokens')
           /\ created' \in 0..MaxSessions /\ created' = created + 1
           /\ \A s \in sessions' : s.id <= created'
           /\ \A t \in tokens' : t.session <= created'
<1> USE Numbers
<1> DEFINE first == [session |-> created + 1, id |-> Cardinality(tokens) + 1, created |-> stamp[h]]
<1>1. Cardinality(tokens) \in Nat
    BY FS_CardinalityType DEF BaseInv, CountInv
<1>2. PICK lifetime \in Lifetimes : sessions' = sessions \cup
          {[id |-> created + 1, method |-> method, hash |-> hash, expires |-> stamp[h] + lifetime]}
    BY DEF InsertSession
<1>3. created' = created + 1 /\ created < MaxSessions /\ Cardinality(tokens) < MaxTokens
    BY DEF InsertSession
<1>4. csrf' = csrf \cup {first} /\ tokens' = tokens \cup {first}
    BY DEF InsertSession
<1>5. created \in 0..MaxSessions /\ stamp[h] \in Times
    BY DEF BaseInv, TypeOK
<1>6. first \in Token
    BY <1>1, <1>3, <1>5 DEF Token
<1>7. [id |-> created + 1, method |-> method, hash |-> hash, expires |-> stamp[h] + lifetime]
        \in Session
    BY <1>3, <1>5 DEF Session, Times
<1>8. sessions' \subseteq Session
    BY <1>2, <1>7 DEF BaseInv, TypeOK
<1>9. \A s \in sessions : s.id \in Nat /\ s.id <= created
    BY DEF BaseInv, TypeOK, CountInv, Session
<1>10. \A s, t \in sessions' : s.id = t.id => s = t
    BY <1>2, <1>5, <1>9 DEF BaseInv, TypeOK
<1>11. IsFiniteSet(tokens')
    BY <1>4, FS_AddElement DEF BaseInv, CountInv
<1>12. \A t \in tokens : t.session \in Nat /\ t.session <= created
    BY DEF BaseInv, TypeOK, CountInv, Token
<1>13. \A s \in sessions' : s.id <= created'
    BY <1>2, <1>3, <1>5, <1>9
<1>14. \A t \in tokens' : t.session <= created'
    BY <1>3, <1>4, <1>5, <1>12
<1> QED
    BY <1>3, <1>4, <1>5, <1>6, <1>8, <1>10, <1>11, <1>13, <1>14 DEF BaseInv, TypeOK

\* A new session has one token, and the other sessions keep theirs.
LEMMA InsertTokens ==
    ASSUME BaseInv, RecentTokensKept, NEW h \in Handlers,
           NEW method, NEW hash, InsertSession(h, method, hash)
    PROVE  RecentTokensKept'
<1> USE Numbers
<1> DEFINE first == [session |-> created + 1, id |-> Cardinality(tokens) + 1, created |-> stamp[h]]
<1>0. PICK lifetime \in Lifetimes : sessions' = sessions \cup
          {[id |-> created + 1, method |-> method, hash |-> hash, expires |-> stamp[h] + lifetime]}
    BY DEF InsertSession
<1> DEFINE new == [id |-> created + 1, method |-> method, hash |-> hash,
                   expires |-> stamp[h] + lifetime]
<1>1. sessions' = sessions \cup {new} /\ new.id = created + 1
    BY <1>0
<1> HIDE DEF new
<1>2. csrf' = csrf \cup {first} /\ tokens' = tokens \cup {first} /\ first.session = created + 1
    BY DEF InsertSession
<1> HIDE DEF first
<1>3. created \in Nat
    BY DEF BaseInv, TypeOK
<1>4. \A s \in sessions : s.id \in Nat /\ s.id <= created
    BY DEF BaseInv, TypeOK, CountInv, Session
<1>5. \A t \in tokens : t.session \in Nat /\ t.session <= created
    BY DEF BaseInv, TypeOK, CountInv, Token
<1>6. IsFiniteSet(tokens') /\ csrf \subseteq tokens
    BY <1>2, FS_AddElement DEF BaseInv, CountInv, TypeOK
<1>7. ASSUME NEW s \in sessions'
      PROVE  Cardinality({t \in csrf' : t.session = s.id}) <= MaxCSRFTokens
    <2>1. CASE s \in sessions
        <3>1. {t \in csrf' : t.session = s.id} = {t \in csrf : t.session = s.id}
            BY <1>2, <1>3, <1>4, <2>1
        <3> QED
            BY <2>1, <3>1 DEF RecentTokensKept
    <2>2. CASE s = new
        <3>1. {t \in csrf' : t.session = s.id} = {first}
            BY <1>1, <1>2, <1>3, <1>5, <1>6, <2>2
        <3>2. Cardinality({first}) = 1
            BY FS_Singleton
        <3> QED
            BY <3>1, <3>2
    <2> QED
        BY <1>1, <2>1, <2>2
<1>8. \A t \in csrf' : \E s \in sessions' : s.id = t.session
    BY <1>1, <1>2 DEF RecentTokensKept
<1>9. ASSUME NEW t \in tokens', NEW s \in sessions', t.session = s.id, t \notin csrf'
      PROVE  Cardinality({u \in tokens' \ {t} : u.session = s.id /\ u.created >= t.created})
                >= MaxCSRFTokens
    <2>1. t \in tokens /\ t \notin csrf
        BY <1>2, <1>9
    <2>2. s \in sessions
        BY <1>1, <1>3, <1>5, <1>9, <2>1
    <2>3. Cardinality(Younger(tokens, t, s.id)) >= MaxCSRFTokens
        BY <1>9, <2>1, <2>2 DEF RecentTokensKept, Younger
    <2>4. Cardinality(Younger(tokens', t, s.id)) >= MaxCSRFTokens
        BY <1>2, <1>6, <2>3, YoungerGrow
    <2> QED
        BY <2>4 DEF Younger
<1> QED
    BY <1>7, <1>8, <1>9 DEF RecentTokensKept

\* The token that IssueCSRF adds, and the ones it drops: they are older than as
\* many as a session keeps.
LEMMA IssueTokens ==
    ASSUME BaseInv, RecentTokensKept, NEW h \in Handlers, IssueCSRF(h)
    PROVE  /\ csrf' \subseteq tokens' /\ tokens' \subseteq Token /\ IsFiniteSet(tokens')
           /\ \A t \in tokens' : t.session <= created
           /\ RecentTokensKept'
<1> USE Numbers
<1>1. PICK s \in sessions :
        /\ s.id = arg[h]
        /\ LET new == [session |-> s.id, id |-> Cardinality(tokens) + 1, created |-> stamp[h]]
               mine == {t \in csrf : t.session = s.id} \cup {new}
           IN  /\ tokens' = tokens \cup {new}
               /\ \E keep \in Kept(mine) :
                    csrf' = {t \in csrf : t.session # s.id} \cup keep
    BY DEF IssueCSRF
<1> DEFINE new == [session |-> s.id, id |-> Cardinality(tokens) + 1, created |-> stamp[h]]
           mine == {t \in csrf : t.session = s.id} \cup {new}
<1>2. tokens' = tokens \cup {new}
    BY <1>1
<1>3. PICK keep \in Kept(mine) : csrf' = {t \in csrf : t.session # s.id} \cup keep
    BY <1>1
<1>4. /\ keep \subseteq mine
      /\ Cardinality(keep) = IF Cardinality(mine) <= MaxCSRFTokens
                             THEN Cardinality(mine) ELSE MaxCSRFTokens
      /\ \A t \in keep, u \in mine \ keep : t.created >= u.created
    BY <1>3 DEF Kept, Youngest
<1>5. Cardinality(tokens) \in Nat /\ Cardinality(tokens) < MaxTokens
    BY FS_CardinalityType DEF BaseInv, CountInv, IssueCSRF
<1>6. new \in Token
    BY <1>5 DEF Token, BaseInv, TypeOK, Session
<1>7. s.id <= created /\ new.session = s.id
    BY DEF BaseInv, CountInv
<1> HIDE DEF new
<1>8. tokens' \subseteq Token /\ IsFiniteSet(tokens')
    BY <1>2, <1>6, FS_AddElement DEF BaseInv, TypeOK, CountInv
<1>9. mine \subseteq tokens' /\ csrf' \subseteq tokens' /\ csrf \subseteq tokens
    BY <1>2, <1>3, <1>4 DEF BaseInv, TypeOK
<1>10. IsFiniteSet(mine) /\ IsFiniteSet(keep)
    BY <1>4, <1>8, <1>9, FS_Subset
<1>11. Cardinality(mine) \in Nat /\ Cardinality(keep) \in Nat
    BY <1>10, FS_CardinalityType
<1>12. \A t \in tokens' : t.session <= created
    BY <1>2, <1>7 DEF BaseInv, CountInv
<1>13. sessions' = sessions
    BY DEF IssueCSRF
<1>14. \A t \in mine : t.session = s.id
    BY <1>7
<1>few. Cardinality(keep) <= MaxCSRFTokens
    <2> HIDE DEF mine
    <2> QED
        BY <1>4, <1>11
<1>15. ASSUME NEW r \in sessions'
       PROVE  Cardinality({t \in csrf' : t.session = r.id}) <= MaxCSRFTokens
    <2>1. CASE r.id = s.id
        <3>1. {t \in csrf' : t.session = r.id} = keep
            BY <1>3, <1>4, <1>14, <2>1
        <3> QED
            BY <1>few, <3>1
    <2>2. CASE r.id # s.id
        <3>1. {t \in csrf' : t.session = r.id} = {t \in csrf : t.session = r.id}
            BY <1>3, <1>4, <1>14, <2>2
        <3> QED
            BY <1>13, <3>1 DEF RecentTokensKept
    <2> QED
        BY <2>1, <2>2
<1>16. \A t \in csrf' : \E r \in sessions' : r.id = t.session
    BY <1>3, <1>4, <1>13, <1>14 DEF RecentTokensKept
<1>17. ASSUME NEW t \in tokens', NEW r \in sessions', t.session = r.id, t \notin csrf'
       PROVE  Cardinality({u \in tokens' \ {t} : u.session = r.id /\ u.created >= t.created})
                >= MaxCSRFTokens
    <2>1. CASE t \in tokens /\ t \notin csrf
        <3>1. Cardinality(Younger(tokens, t, r.id)) >= MaxCSRFTokens
            BY <1>13, <1>17, <2>1 DEF RecentTokensKept, Younger
        <3>2. Cardinality(Younger(tokens', t, r.id)) >= MaxCSRFTokens
            BY <1>2, <1>8, <3>1, YoungerGrow
        <3> QED
            BY <3>2 DEF Younger
    <2>2. CASE t \in mine
        <3>1. t \in mine \ keep
            BY <1>3, <1>17, <2>2
        <3>2. Cardinality(keep) # Cardinality(mine)
            BY <1>4, <1>10, <3>1, FS_Subset
        <3>3. Cardinality(keep) = MaxCSRFTokens
            BY <1>4, <1>11, <3>2
        <3>4. keep \subseteq Younger(tokens', t, r.id)
            BY <1>4, <1>9, <1>14, <1>17, <2>2, <3>1 DEF Younger
        <3>5. Younger(tokens', t, r.id) \subseteq tokens'
            BY DEF Younger
        <3>6. IsFiniteSet(Younger(tokens', t, r.id))
            BY <1>8, <3>5, FS_Subset
        <3>7. /\ Cardinality(Younger(tokens', t, r.id)) \in Nat
              /\ Cardinality(keep) <= Cardinality(Younger(tokens', t, r.id))
            BY <3>4, <3>6, FS_Subset, FS_CardinalityType
        <3> QED
            BY <3>3, <3>7 DEF Younger
    <2>3. t \in mine \/ (t \in tokens /\ t \notin csrf)
        BY <1>2, <1>3, <1>17
    <2> QED
        BY <2>1, <2>2, <2>3
<1> QED
    BY <1>8, <1>9, <1>12, <1>15, <1>16, <1>17 DEF RecentTokensKept

-----------------------------------------------------------------------------
(* The types and the counts.                                               *)

\* Handlers that are done work with nothing.
LEMMA DoneHandlers ==
    ASSUME BaseInv, NEW h \in Handlers, Done(h), expiry' = expiry
    PROVE  /\ pc' \in [Handlers -> {"idle", "redeem", "login", "issue", "revoke"}]
           /\ stamp' \in [Handlers -> Times]
           /\ arg' = [g \in Handlers |-> arg'[g]]
           /\ HandlerInv'
<1> USE Numbers
<1>1. stamp' \in [Handlers -> Times] /\ pc' \in [Handlers -> {"idle", "redeem", "login", "issue", "revoke"}]
    BY DEF Done, BaseInv, TypeOK, Times
<1>2. arg' = [g \in Handlers |-> arg'[g]]
    BY DEF Done, BaseInv, CountInv
<1>3. HandlerInv'
    BY DEF Done, BaseInv, TypeOK, CountInv, HandlerInv
<1> QED
    BY <1>1, <1>2, <1>3

\* A handler that starts to wait has read the clock.
LEMMA WaitBase ==
    ASSUME BaseInv, NEW h \in Handlers, NEW x,
           NEW step \in {"redeem", "login", "issue", "revoke"}, Wait(h, step, x),
           step = "redeem" => x \in Codes /\ expiry[x] \in Nat
    PROVE  BaseInv'
<1> USE Numbers
<1>1. TypeOK'
    BY DEF Wait, BaseInv, TypeOK, db, task, history
<1>2. CountInv'
    BY DEF Wait, BaseInv, CountInv, db, task, history
<1>3. HandlerInv'
    BY DEF Wait, BaseInv, TypeOK, CountInv, HandlerInv
<1> QED
    BY <1>1, <1>2, <1>3 DEF BaseInv

\* Deleting sessions keeps the rest of the tables as it was.
LEMMA WithoutTyped ==
    ASSUME BaseInv, NEW gone, gone \subseteq sessions, Without(gone), tokens' = tokens,
           created' = created, redeemed' = redeemed, arg' = arg
    PROVE  /\ sessions' \subseteq Session /\ csrf' \subseteq tokens'
           /\ \A s, t \in sessions' : s.id = t.id => s = t
           /\ arg = [h \in Handlers |-> arg[h]] => CountInv'
<1>1. sessions' \subseteq sessions /\ csrf' \subseteq csrf
    BY WithoutBase DEF BaseInv
<1> QED
    BY <1>1 DEF BaseInv, TypeOK, CountInv

LEMMA BaseInit == Init => BaseInv
<1> SUFFICES ASSUME Init PROVE BaseInv
    OBVIOUS
<1> USE Numbers
<1>1. TypeOK
    BY DEF Init, TypeOK, Times, Session, Token
<1>2. HandlerInv
    BY DEF Init, HandlerInv
<1>3. IsFiniteSet(tokens)
    BY FS_EmptySet DEF Init
<1>4. CountInv
    BY <1>3 DEF Init, CountInv
<1> QED
    BY <1>1, <1>2, <1>4 DEF BaseInv

\* The commands and the clock.
LEMMA BaseCommands ==
    ASSUME BaseInv,
           \/ Tick \/ SetAdministratorPassword \/ DisableAdministrator
           \/ \E c \in Codes, lifetime \in 0..CodeTTL + 1 : BrowserCodeCommand(c, lifetime)
    PROVE  BaseInv'
<1> USE Numbers
<1>1. CASE Tick
    <2>1. TypeOK' 
        BY <1>1 DEF Tick, BaseInv, TypeOK, Times, db, handler, task, history
    <2>2. HandlerInv' /\ CountInv'
        BY <1>1 DEF Tick, BaseInv, HandlerInv, CountInv, db, handler, task, history
    <2> QED
        BY <2>1, <2>2 DEF BaseInv
<1>2. CASE SetAdministratorPassword \/ DisableAdministrator
    <2>1. /\ Without(PasswordSessions)
          /\ UNCHANGED <<now, expiry, consumed, handler, task, history, created>>
        BY <1>2 DEF SetAdministratorPassword, DisableAdministrator
    <2>2. /\ sessions' \subseteq Session /\ csrf' \subseteq tokens'
          /\ \A s, t \in sessions' : s.id = t.id => s = t
          /\ CountInv'
        BY <2>1, WithoutTyped DEF handler, history, PasswordSessions, BaseInv, CountInv
    <2>3. admin' \in [hash : 0..MaxRotations, enabled : BOOLEAN]
        <3>1. admin \in [hash : 0..MaxRotations, enabled : BOOLEAN]
            BY DEF BaseInv, TypeOK
        <3>2. CASE SetAdministratorPassword
            <4>1. admin.hash + 1 \in 0..MaxRotations
                BY <3>1, <3>2 DEF SetAdministratorPassword
            <4> QED
                BY <3>2, <4>1 DEF SetAdministratorPassword
        <3>3. CASE DisableAdministrator
            <4>1. admin' = [admin EXCEPT !.enabled = FALSE]
                BY <3>3 DEF DisableAdministrator
            <4> QED
                BY <3>1, <4>1, Zenon
        <3> QED
            BY <1>2, <3>2, <3>3
    <2>4. HandlerInv'
        BY <2>1 DEF BaseInv, HandlerInv, handler
    <2>5. TypeOK'
        BY <2>1, <2>2, <2>3 DEF BaseInv, TypeOK, handler, task, history
    <2> QED
        BY <2>2, <2>4, <2>5 DEF BaseInv
<1>3. ASSUME NEW c \in Codes, NEW lifetime \in 0..CodeTTL + 1, BrowserCodeCommand(c, lifetime)
      PROVE  BaseInv'
    <2>1. expiry' = [expiry EXCEPT ![c] = now + lifetime] /\ expiry[c] = None
        BY <1>3 DEF BrowserCodeCommand, IssueBrowserCode
    <2>2. UNCHANGED <<now, db, handler, task, history, created>>
        BY <1>3 DEF BrowserCodeCommand, IssueBrowserCode
    <2>3. TypeOK'
        BY <2>1, <2>2 DEF BaseInv, TypeOK, Times, db, handler, task, history
    <2>4. HandlerInv' /\ CountInv'
        BY <2>1, <2>2 DEF BaseInv, TypeOK, Times, HandlerInv, CountInv, db, handler, task, history
    <2> QED
        BY <2>3, <2>4 DEF BaseInv
<1> QED
    BY <1>1, <1>2, <1>3

\* The purge.
LEMMA BasePurge ==
    ASSUME BaseInv, PurgeStart \/ PurgeSessions \/ PurgeCodes \/ PurgeFail
    PROVE  BaseInv'
<1> USE Numbers
<1>1. CASE PurgeStart \/ PurgeFail
    <2>1. /\ UNCHANGED <<now, expiry, db, handler, history, created>>
          /\ purge' \in {"idle", "sessions"} /\ purgeNow' \in {0, now}
        BY <1>1 DEF PurgeStart, PurgeFail
    <2>2. TypeOK'
        BY <2>1 DEF BaseInv, TypeOK, Times, db, handler, history
    <2> QED
        BY <2>1, <2>2 DEF BaseInv, HandlerInv, CountInv, db, handler, history
<1>2. CASE PurgeSessions
    <2>1. PICK cut \in Oldest(sessions, [s \in sessions |-> s.expires]) : Without(cut)
        BY <1>2 DEF PurgeSessions
    <2>2. cut \subseteq sessions
        BY DEF Oldest
    <2>3. /\ purge' = "codes"
          /\ UNCHANGED <<now, expiry, consumed, admin, handler, purgeNow, history, created>>
        BY <1>2 DEF PurgeSessions
    <2>4. /\ sessions' \subseteq Session /\ csrf' \subseteq tokens'
          /\ \A s, t \in sessions' : s.id = t.id => s = t
          /\ CountInv'
        BY <2>1, <2>2, <2>3, WithoutTyped DEF handler, history, BaseInv, CountInv
    <2>5. TypeOK'
        BY <2>3, <2>4 DEF BaseInv, TypeOK, handler, history
    <2> QED
        BY <2>3, <2>4, <2>5 DEF BaseInv, HandlerInv, handler
<1>3. CASE PurgeCodes
    <2>1. /\ purge' = "idle" /\ purgeNow' = 0 /\ consumed' \subseteq consumed
          /\ UNCHANGED <<now, expiry, sessions, csrf, admin, handler, history, created>>
        BY <1>3 DEF PurgeCodes
    <2>2. TypeOK'
        BY <2>1 DEF BaseInv, TypeOK, Times, handler, history
    <2> QED
        BY <2>1, <2>2 DEF BaseInv, HandlerInv, CountInv, handler, history
<1> QED
    BY <1>1, <1>2, <1>3

\* The handlers.
LEMMA BaseHandlers ==
    ASSUME BaseInv, RecentTokensKept, NEW h \in Handlers,
           \/ \E c \in Codes : BrowserCodeExchange(h, c)
           \/ RedeemCode(h)
           \/ BrowserPasswordLogin(h) \/ CreatePasswordSession(h)
           \/ \E s \in sessions : BrowserSession(h, s) \/ BrowserLogout(h, s)
           \/ IssueCSRF(h) \/ RevokeSession(h)
           \/ Abort(h)
    PROVE  BaseInv'
<1> USE Numbers
<1>1. CASE \E c \in Codes : BrowserCodeExchange(h, c)
    <2>1. PICK c \in Codes : BrowserCodeExchange(h, c)
        BY <1>1
    <2>2. expiry[c] \in Nat /\ Wait(h, "redeem", c)
        BY <2>1 DEF BrowserCodeExchange, CodeValid, BaseInv, TypeOK
    <2> QED
        BY <2>2, WaitBase
<1>2. CASE BrowserPasswordLogin(h)
    BY <1>2, WaitBase DEF BrowserPasswordLogin
<1>3. CASE \E s \in sessions : BrowserSession(h, s) \/ BrowserLogout(h, s)
    BY <1>3, WaitBase DEF BrowserSession, BrowserLogout
<1>4. CASE RedeemCode(h)
    <2>1. /\ InsertSession(h, "browser_code", 0) /\ Done(h)
          /\ UNCHANGED <<now, expiry, admin, task>>
        BY <1>4 DEF RedeemCode
    <2>2. arg[h] \in Codes /\ arg[h] \notin consumed
        BY <1>4 DEF RedeemCode, BaseInv, HandlerInv
    <2>3. consumed' \subseteq Codes /\ late' \subseteq Codes
        BY <1>4, <2>2 DEF RedeemCode, BaseInv, TypeOK
    <2>4. /\ sessions' \subseteq Session
          /\ \A s, t \in sessions' : s.id = t.id => s = t
          /\ csrf' \subseteq tokens' /\ tokens' \subseteq Token /\ IsFiniteSet(tokens')
          /\ created' \in 0..MaxSessions /\ created' = created + 1
          /\ \A s \in sessions' : s.id <= created'
          /\ \A t \in tokens' : t.session <= created'
        BY <2>1, InsertBase
    <2>5. \A c \in Codes : redeemed'[c] \in 0..MaxSessions /\ redeemed'[c] <= created'
        BY <1>4, <2>2, <2>4 DEF RedeemCode, BaseInv, TypeOK, CountInv
    <2>6. redeemed' \in [Codes -> 0..MaxSessions]
        BY <1>4, <2>5 DEF RedeemCode, BaseInv, TypeOK
    <2>7. /\ pc' \in [Handlers -> {"idle", "redeem", "login", "issue", "revoke"}]
          /\ stamp' \in [Handlers -> Times]
          /\ arg' = [g \in Handlers |-> arg'[g]]
          /\ HandlerInv'
        BY <2>1, DoneHandlers
    <2>8. TypeOK'
        BY <2>1, <2>3, <2>4, <2>6, <2>7 DEF BaseInv, TypeOK, task
    <2> QED
        BY <2>4, <2>5, <2>7, <2>8 DEF BaseInv, CountInv
<1>5. CASE CreatePasswordSession(h)
    <2>1. /\ InsertSession(h, "password", arg[h]) /\ Done(h)
          /\ UNCHANGED <<now, expiry, consumed, admin, task, redeemed, late>>
        BY <1>5 DEF CreatePasswordSession
    <2>2. arg[h] \in 0..MaxRotations
        BY <1>5 DEF CreatePasswordSession, Credential, BaseInv, TypeOK
    <2>4. /\ sessions' \subseteq Session
          /\ \A s, t \in sessions' : s.id = t.id => s = t
          /\ csrf' \subseteq tokens' /\ tokens' \subseteq Token /\ IsFiniteSet(tokens')
          /\ created' \in 0..MaxSessions /\ created' = created + 1
          /\ \A s \in sessions' : s.id <= created'
          /\ \A t \in tokens' : t.session <= created'
        BY <2>1, <2>2, InsertBase
    <2>5. \A c \in Codes : redeemed'[c] <= created'
        BY <2>1, <2>4 DEF BaseInv, TypeOK, CountInv
    <2>7. /\ pc' \in [Handlers -> {"idle", "redeem", "login", "issue", "revoke"}]
          /\ stamp' \in [Handlers -> Times]
          /\ arg' = [g \in Handlers |-> arg'[g]]
          /\ HandlerInv'
        BY <2>1, DoneHandlers
    <2>8. TypeOK'
        BY <2>1, <2>4, <2>7 DEF BaseInv, TypeOK, task
    <2> QED
        BY <2>4, <2>5, <2>7, <2>8 DEF BaseInv, CountInv
<1>6. CASE IssueCSRF(h)
    <2>1. /\ Done(h)
          /\ UNCHANGED <<now, expiry, consumed, sessions, admin, task, redeemed, late, created>>
        BY <1>6 DEF IssueCSRF
    <2>2. /\ csrf' \subseteq tokens' /\ tokens' \subseteq Token /\ IsFiniteSet(tokens')
          /\ \A t \in tokens' : t.session <= created
        BY <1>6, IssueTokens
    <2>3. /\ pc' \in [Handlers -> {"idle", "redeem", "login", "issue", "revoke"}]
          /\ stamp' \in [Handlers -> Times]
          /\ arg' = [g \in Handlers |-> arg'[g]]
          /\ HandlerInv'
        BY <2>1, DoneHandlers
    <2>4. TypeOK'
        BY <2>1, <2>2, <2>3 DEF BaseInv, TypeOK, task
    <2> QED
        BY <2>1, <2>2, <2>3, <2>4 DEF BaseInv, CountInv
<1>7. CASE RevokeSession(h)
    <2>1. /\ Without({s \in sessions : s.id = arg[h]}) /\ Done(h)
          /\ UNCHANGED <<now, expiry, consumed, admin, task, redeemed, late, tokens, created>>
        BY <1>7 DEF RevokeSession
    <2>2. sessions' \subseteq sessions /\ csrf' \subseteq csrf
        BY <2>1 DEF Without
    <2>3. /\ pc' \in [Handlers -> {"idle", "redeem", "login", "issue", "revoke"}]
          /\ stamp' \in [Handlers -> Times]
          /\ arg' = [g \in Handlers |-> arg'[g]]
          /\ HandlerInv'
        BY <2>1, DoneHandlers
    <2>4. TypeOK'
        BY <2>1, <2>2, <2>3 DEF BaseInv, TypeOK, task
    <2> QED
        BY <2>1, <2>2, <2>3, <2>4 DEF BaseInv, CountInv
<1>8. CASE Abort(h)
    <2>1. Done(h) /\ UNCHANGED <<now, expiry, db, task, history, created>>
        BY <1>8 DEF Abort
    <2>3. /\ pc' \in [Handlers -> {"idle", "redeem", "login", "issue", "revoke"}]
          /\ stamp' \in [Handlers -> Times]
          /\ arg' = [g \in Handlers |-> arg'[g]]
          /\ HandlerInv'
        BY <2>1, DoneHandlers
    <2>4. TypeOK'
        BY <2>1, <2>3 DEF BaseInv, TypeOK, task, db, history
    <2> QED
        BY <2>1, <2>3, <2>4 DEF BaseInv, CountInv, db, history
<1> QED
    BY <1>1, <1>2, <1>3, <1>4, <1>5, <1>6, <1>7, <1>8

-----------------------------------------------------------------------------
(* The tokens.                                                             *)

TokensInv == BaseInv /\ RecentTokensKept

LEMMA TokensStep == TokensInv /\ [Next]_vars => TokensInv'
<1> SUFFICES ASSUME TokensInv, [Next]_vars PROVE TokensInv'
    OBVIOUS
<1> USE DEF TokensInv
<1>1. CASE UNCHANGED vars
    BY <1>1 DEF vars, db, handler, task, history, BaseInv, TypeOK, HandlerInv, CountInv,
                RecentTokensKept, Times
<1>2. CASE \/ Tick \/ PurgeStart \/ PurgeCodes \/ PurgeFail
           \/ \E c \in Codes, lifetime \in 0..CodeTTL + 1 : BrowserCodeCommand(c, lifetime)
    <2>1. UNCHANGED <<sessions, csrf, tokens>>
        BY <1>2 DEF Tick, PurgeStart, PurgeCodes, PurgeFail, BrowserCodeCommand,
                    IssueBrowserCode, db, history
    <2> QED
        BY <1>2, <2>1, BaseCommands, BasePurge DEF RecentTokensKept
<1>3. CASE SetAdministratorPassword \/ DisableAdministrator
    <2>1. PasswordSessions \subseteq sessions /\ Without(PasswordSessions) /\ tokens' = tokens
        BY <1>3 DEF SetAdministratorPassword, DisableAdministrator, PasswordSessions, history
    <2> QED
        BY <1>3, <2>1, BaseCommands, WithoutTokens DEF BaseInv
<1>4. CASE PurgeSessions
    <2>1. PICK cut \in Oldest(sessions, [s \in sessions |-> s.expires]) : Without(cut)
        BY <1>4 DEF PurgeSessions
    <2>2. cut \subseteq sessions /\ tokens' = tokens
        BY <1>4 DEF Oldest, PurgeSessions, history
    <2> QED
        BY <1>4, <2>1, <2>2, BasePurge, WithoutTokens DEF BaseInv
<1>5. ASSUME NEW h \in Handlers,
             \/ \E c \in Codes : BrowserCodeExchange(h, c)
             \/ BrowserPasswordLogin(h)
             \/ \E s \in sessions : BrowserSession(h, s) \/ BrowserLogout(h, s)
             \/ Abort(h)
      PROVE  TokensInv'
    <2>1. UNCHANGED <<sessions, csrf, tokens>>
        BY <1>5 DEF BrowserCodeExchange, BrowserPasswordLogin, BrowserSession, BrowserLogout,
                    Wait, Abort, db, history
    <2>2. BaseInv'
        BY <1>5, BaseHandlers
    <2> QED
        BY <2>1, <2>2 DEF RecentTokensKept
<1>6. ASSUME NEW h \in Handlers, RedeemCode(h) \/ CreatePasswordSession(h)
      PROVE  TokensInv'
    <2>1. InsertSession(h, "browser_code", 0) \/ InsertSession(h, "password", arg[h])
        BY <1>6 DEF RedeemCode, CreatePasswordSession
    <2>2. BaseInv'
        BY <1>6, BaseHandlers
    <2> QED
        BY <2>1, <2>2, InsertTokens
<1>7. ASSUME NEW h \in Handlers, IssueCSRF(h)
      PROVE  TokensInv'
    BY <1>7, IssueTokens, BaseHandlers
<1>8. ASSUME NEW h \in Handlers, RevokeSession(h)
      PROVE  TokensInv'
    <2>1. Without({s \in sessions : s.id = arg[h]}) /\ tokens' = tokens
        BY <1>8 DEF RevokeSession
    <2> QED
        BY <1>8, <2>1, WithoutTokens, BaseHandlers DEF BaseInv
<1> QED
    BY <1>1, <1>2, <1>3, <1>4, <1>5, <1>6, <1>7, <1>8 DEF Next

LEMMA TokensInit == Init => TokensInv
<1> SUFFICES ASSUME Init PROVE TokensInv
    OBVIOUS
<1>1. RecentTokensKept
    BY DEF Init, RecentTokensKept
<1> QED
    BY <1>1, BaseInit DEF TokensInv

\* The tables are keyed and typed, whatever the requests, the commands and the
\* purge do at the same time.
THEOREM TypeCorrect == Spec => []TypeOK
<1>1. TokensInv => TypeOK
    BY DEF TokensInv, BaseInv
<1> QED
    BY <1>1, TokensInit, TokensStep, PTL DEF Spec

\* IssueCSRF keeps the youngest tokens of a session: at most MaxCSRFTokens, none
\* without its session, and a token is dropped only when as many that are not
\* older have been handed out as a session keeps.
THEOREM TokensAreKept == Spec => []RecentTokensKept
<1>1. TokensInv => RecentTokensKept
    BY DEF TokensInv
<1> QED
    BY <1>1, TokensInit, TokensStep, PTL DEF Spec

-----------------------------------------------------------------------------
(* The passwords.                                                          *)

PasswordInv == TokensInv /\ NoStalePasswordSession

LEMMA PasswordStep ==
    ASSUME PasswordInv, [Next]_vars
    PROVE  NoStalePasswordSession'
<1> USE DEF NoStalePasswordSession, PasswordSessions, Credential, PasswordInv
<1>1. CASE UNCHANGED vars
    BY <1>1 DEF vars, db
<1>2. CASE \/ Tick \/ PurgeStart \/ PurgeCodes \/ PurgeFail
           \/ \E c \in Codes, lifetime \in 0..CodeTTL + 1 : BrowserCodeCommand(c, lifetime)
    BY <1>2 DEF Tick, PurgeStart, PurgeCodes, PurgeFail, BrowserCodeCommand, IssueBrowserCode, db
<1>3. CASE SetAdministratorPassword \/ DisableAdministrator
    BY <1>3 DEF SetAdministratorPassword, DisableAdministrator, Without
<1>4. CASE PurgeSessions
    BY <1>4 DEF PurgeSessions, Without
<1>5. ASSUME NEW h \in Handlers,
             \/ \E c \in Codes : BrowserCodeExchange(h, c)
             \/ BrowserPasswordLogin(h)
             \/ \E s \in sessions : BrowserSession(h, s) \/ BrowserLogout(h, s)
             \/ IssueCSRF(h) \/ RevokeSession(h) \/ Abort(h)
      PROVE  NoStalePasswordSession'
    <2>1. sessions' \subseteq sessions /\ admin' = admin
        BY <1>5 DEF BrowserCodeExchange, BrowserPasswordLogin, BrowserSession, BrowserLogout,
                    Wait, Abort, IssueCSRF, RevokeSession, Without, db
    <2> QED
        BY <2>1
<1>6. ASSUME NEW h \in Handlers, RedeemCode(h)
      PROVE  NoStalePasswordSession'
    BY <1>6 DEF RedeemCode, InsertSession
<1>7. ASSUME NEW h \in Handlers, CreatePasswordSession(h)
      PROVE  NoStalePasswordSession'
    <2>1. Credential(arg[h]) /\ admin' = admin
        BY <1>7 DEF CreatePasswordSession
    <2>2. PICK new : sessions' = sessions \cup {new} /\ new.hash = arg[h]
        <3>1. PICK lifetime \in Lifetimes : sessions' = sessions \cup
                {[id |-> created + 1, method |-> "password", hash |-> arg[h],
                  expires |-> stamp[h] + lifetime]}
            BY <1>7 DEF CreatePasswordSession, InsertSession
        <3> DEFINE x == [id |-> created + 1, method |-> "password", hash |-> arg[h],
                         expires |-> stamp[h] + lifetime]
        <3> WITNESS x
        <3> QED
            BY <3>1
    <2> QED
        BY <2>1, <2>2
<1> QED
    BY <1>1, <1>2, <1>3, <1>4, <1>5, <1>6, <1>7 DEF Next

\* Whatever log-in was between comparison and transaction, no session of a
\* password is left when SetAdministratorPassword or DisableAdministrator is done.
THEOREM PasswordSessionsEnd == Spec => []NoStalePasswordSession
<1>1. Init => NoStalePasswordSession
    BY DEF Init, NoStalePasswordSession, PasswordSessions
<1>2. PasswordInv /\ [Next]_vars => PasswordInv'
    BY PasswordStep, TokensStep DEF PasswordInv
<1>3. PasswordInv => NoStalePasswordSession
    BY DEF PasswordInv
<1>4. Init => PasswordInv
    BY <1>1, TokensInit DEF PasswordInv
<1> QED
    BY <1>2, <1>3, <1>4, PTL DEF Spec

-----------------------------------------------------------------------------
(* The codes.                                                              *)

CodesInv == TokensInv /\ RedeemInv

LEMMA CodesStep ==
    ASSUME CodesInv, [Next]_vars
    PROVE  RedeemInv'
<1> USE Numbers DEF CodesInv, TokensInv, BaseInv
<1>0. /\ now \in Nat /\ purgeNow \in Nat
      /\ \A c \in Codes : redeemed[c] \in Nat
      /\ expiry \in [Codes -> Nat \cup {None}]
      /\ consumed \subseteq Codes /\ late \subseteq Codes
    BY DEF TypeOK, Times
<1>1. CASE UNCHANGED vars
    BY <1>1 DEF vars, db, task, history, RedeemInv
<1>2. CASE Tick
    BY <1>0, <1>2 DEF Tick, RedeemInv, db, task, history
<1>3. ASSUME NEW c \in Codes, NEW lifetime \in 0..CodeTTL + 1, BrowserCodeCommand(c, lifetime)
      PROVE  RedeemInv'
    BY <1>0, <1>3 DEF BrowserCodeCommand, IssueBrowserCode, RedeemInv, db, task, history
<1>4. CASE SetAdministratorPassword \/ DisableAdministrator \/ PurgeSessions
    BY <1>4 DEF SetAdministratorPassword, DisableAdministrator, PurgeSessions, RedeemInv,
                task, history
<1>5. CASE PurgeStart \/ PurgeFail
    BY <1>0, <1>5 DEF PurgeStart, PurgeFail, RedeemInv, db, history
<1>6. CASE PurgeCodes
    <2>1. PICK cut \in Oldest(consumed, expiry) : consumed' = consumed \ cut
        BY <1>6 DEF PurgeCodes
    <2>2. \A c \in cut : c \in consumed /\ expiry[c] <= purgeNow
        BY DEF Oldest
    <2>3. purgeNow' = 0 /\ UNCHANGED <<now, expiry, redeemed, late>>
        BY <1>6 DEF PurgeCodes, history
    <2> QED
        BY <1>0, <2>1, <2>2, <2>3 DEF RedeemInv
<1>7. ASSUME NEW h \in Handlers,
             \/ \E c \in Codes : BrowserCodeExchange(h, c)
             \/ BrowserPasswordLogin(h)
             \/ \E s \in sessions : BrowserSession(h, s) \/ BrowserLogout(h, s)
             \/ CreatePasswordSession(h) \/ IssueCSRF(h) \/ RevokeSession(h) \/ Abort(h)
      PROVE  RedeemInv'
    <2>1. UNCHANGED <<now, expiry, consumed, purgeNow, redeemed, late>>
        BY <1>7 DEF BrowserCodeExchange, BrowserPasswordLogin, BrowserSession, BrowserLogout,
                    Wait, Abort, CreatePasswordSession, IssueCSRF, RevokeSession, db, task, history
    <2> QED
        BY <2>1 DEF RedeemInv
<1>8. ASSUME NEW h \in Handlers, RedeemCode(h)
      PROVE  RedeemInv'
    <2> DEFINE c == arg[h]
    <2>1. c \in Codes /\ expiry[c] \in Nat /\ c \notin consumed
        BY <1>8 DEF RedeemCode, HandlerInv
    <2>2. /\ consumed' = consumed \cup {c}
          /\ redeemed' = [redeemed EXCEPT ![c] = @ + 1]
          /\ late' = IF expiry[c] <= now THEN late \cup {c} ELSE late
          /\ UNCHANGED <<now, expiry, purgeNow>>
        BY <1>8 DEF RedeemCode, task
    <2>3. redeemed \in [Codes -> 0..MaxSessions]
        BY DEF TypeOK
    <2> HIDE DEF c
    <2> QED
        BY <1>0, <2>1, <2>2, <2>3 DEF RedeemInv
<1> QED
    BY <1>1, <1>2, <1>3, <1>4, <1>5, <1>6, <1>7, <1>8 DEF Next

\* RedeemCode makes one session of a code at most, although the handler checks
\* the code before it waits for the connection and PurgeExpired removes the mark
\* of a code that has run out.
THEOREM CodesAreSingleUse == Spec => []SingleUse
<1> USE Numbers
<1>1. Init => RedeemInv
    BY DEF Init, RedeemInv
<1>2. CodesInv /\ [Next]_vars => CodesInv'
    BY CodesStep, TokensStep DEF CodesInv
<1>3. CodesInv => SingleUse
    BY DEF CodesInv, RedeemInv, SingleUse
<1>4. Init => CodesInv
    BY <1>1, TokensInit DEF CodesInv
<1> QED
    BY <1>2, <1>3, <1>4, PTL DEF Spec


-----------------------------------------------------------------------------
(* What tdns config leaves.                                                *)

Needed == {"cert", "key", "yaml"}
FileNames == Needed \cup {"hosts", "unit"}
Contents == {Nothing, Torn, EnvironmentKey} \cup Nat

\* A file that the run of tdns config has not come to yet.
ToWrite(f) == \E i \in 1 .. Len(writer.todo) : writer.todo[i] = f

\* tdns config has written what it does not have to write any more, and a run that
\* has come to its end has written everything.
WriterInv ==
    /\ writer = [run |-> writer.run, todo |-> writer.todo]
    /\ writer.run \in 0 .. MaxRuns /\ writer.todo \in Seq(FileNames)
    /\ files \in [FileNames -> Contents]
    /\ flags \in [1 .. MaxRuns -> Flags]
    /\ environment \in Contents
    /\ complete \in BOOLEAN
    /\ writer.todo # <<>> => writer.run > 0 /\ ~complete
    /\ \A f \in Needed : writer.todo # <<>> /\ ~ToWrite(f) => files[f] = writer.run
    /\ complete => writer.run > 0 /\ \A f \in Needed : files[f] = writer.run

\* A server that was started with all of that has read it, or will.
ServerInv ==
    /\ api \in [at : {"off", "cert", "key", "up", "dns"}, fresh : BOOLEAN,
                addr : ApiAddrs \cup {Nothing}, signer : Contents, cert : Contents]
    /\ api.fresh => /\ api.addr = flags[writer.run].listenapi
                    /\ complete /\ api.at \in {"cert", "key", "up"}
                    /\ api.at # "cert" => api.cert = writer.run
                    /\ environment = Nothing => api.signer = writer.run

Operations ==
    {"start zen-mode", "start blacklist", "start stub-resolver", "start static-response",
     "stop stub-resolver", "stop static-response", "stop blacklist", "dnslog status",
     "dnslog start", "dnslog stop", "dnslog clear", "top", "alias", "replace stubs",
     "replace zen domains"}
Results == [operation : Operations, report : {"ok", "error"}, applied : BOOLEAN,
            why : {"unreachable", "broken", "200", "401", "500"}]

CommandType ==
    [at : {"none", "client", "send", "sent", "answered", "broken", "done"},
     todo : Seq(Operations), token : Contents, ca : Contents,
     status : {"", "200", "401", "500"}, message : {"", "OK", "error"},
     applied : BOOLEAN, results : Seq(Results), fresh : BOOLEAN]

\* A command that is not answered has not been applied as far as it knows, and
\* what the answer says is so.
CommandInv ==
    /\ command \in CommandType
    /\ command.at \in {"client", "send", "sent", "answered", "broken"} => command.todo # <<>>
    /\ command.at \in {"client", "send", "sent"} => ~command.applied
    /\ command.at = "answered" =>
         \/ command.status = "200" /\ command.message = "OK" /\ command.applied
         \/ command.status = "200" /\ command.message = "error" /\ ~command.applied
         \/ command.status = "401" /\ ~command.applied
         \/ command.status = "500"
    /\ \A i \in 1 .. Len(command.results) :
         /\ command.results[i].report = "ok" =>
              command.results[i].applied \/ command.results[i].operation = "top"
         /\ command.results[i].report = "error" /\ command.results[i].applied =>
              command.results[i].why \in {"broken", "500"}

\* A command of a fresh deployment has its token and its certificate.
FreshInv ==
    command.fresh =>
      /\ api.fresh /\ api.at = "up" /\ environment = Nothing
      /\ command.token = writer.run
      /\ command.at = "send" => command.ca = writer.run
      /\ command.at = "answered" => command.status # "401"
      /\ command.at \in {"sent", "answered", "broken"} => Suits(flags[writer.run])
      /\ \A i \in 1 .. Len(command.results) :
           /\ command.results[i].why # "401"
           /\ command.results[i].why = "unreachable" <=> ~Suits(flags[writer.run])

DeployInv == WriterInv /\ ServerInv /\ CommandInv /\ FreshInv

LEMMA NoCommandTyped == NoCommand \in CommandType
<1>1. <<>> \in Seq(Operations) /\ <<>> \in Seq(Results)
    OBVIOUS
<1> QED
    BY <1>1 DEF NoCommand, CommandType, Contents

LEMMA DeployInitial == DeployInit => DeployInv
<1> SUFFICES ASSUME DeployInit PROVE DeployInv
    OBVIOUS
<1>0. <<>> \in Seq(FileNames) /\ <<>> \in Seq(Operations) /\ <<>> \in Seq(Results) /\ Len(<<>>) = 0
    OBVIOUS
<1>1. WriterInv
    <2>1. writer.run = 0 /\ writer.todo = <<>> /\ writer = [run |-> 0, todo |-> <<>>]
        BY DEF DeployInit
    <2>2. files \in [FileNames -> Contents] /\ environment \in Contents
        BY DEF DeployInit, FileNames, Needed, Contents
    <2>4. flags \in [1 .. MaxRuns -> Flags]
        BY DeploymentAssumption DEF DeploymentAssumption, DeployInit
    <2>3. complete = FALSE /\ 0 \in 0 .. MaxRuns
        BY DeploymentAssumption DEF DeploymentAssumption, DeployInit
    <2> QED
        BY <1>0, <2>1, <2>2, <2>3, <2>4 DEF WriterInv
<1>2. ServerInv
    BY DEF DeployInit, ServerInv, Off, Contents
<1>3. CommandInv
    <2>1. command.at = "none" /\ command.results = <<>> /\ command = NoCommand
        BY DEF DeployInit, NoCommand
    <2> QED
        BY <1>0, <2>1, NoCommandTyped DEF CommandInv
<1>4. FreshInv
    BY DEF DeployInit, FreshInv, NoCommand
<1> QED
    BY <1>1, <1>2, <1>3, <1>4 DEF DeployInv

LEMMA ConcatTwo ==
    ASSUME NEW S, NEW s \in Seq(S), NEW t \in Seq(S), NEW u, u = s \o t
    PROVE  /\ u \in Seq(S) /\ Len(u) = Len(s) + Len(t)
           /\ \A i \in 1 .. Len(s) : u[i] = s[i]
           /\ \A i \in 1 .. Len(t) : u[Len(s) + i] = t[i]
BY ConcatProperties

LEMMA ConfigFiles ==
    ASSUME NEW unit \in {Unit, <<>>}, NEW list, list = Certificates \o SampleConfig \o unit
    PROVE  /\ list \in Seq(FileNames) /\ Len(list) \in {4, 5}
           /\ list[1] = "cert" /\ list[2] = "key" /\ list[3] = "yaml"
<1>1. Certificates \in Seq(FileNames) /\ SampleConfig \in Seq(FileNames)
    BY DEF Certificates, SampleConfig, FileNames, Needed
<1>2. unit \in Seq(FileNames)
    <2>1. Unit \in Seq(FileNames) /\ <<>> \in Seq(FileNames)
        BY DEF Unit, FileNames
    <2> QED
        BY <2>1
<1> DEFINE four == Certificates \o SampleConfig
<1>3. four = Certificates \o SampleConfig /\ list = four \o unit
    OBVIOUS
<1> HIDE DEF four
<1>4. /\ four \in Seq(FileNames) /\ Len(four) = Len(Certificates) + Len(SampleConfig)
      /\ \A i \in 1 .. Len(Certificates) : four[i] = Certificates[i]
      /\ \A i \in 1 .. Len(SampleConfig) : four[Len(Certificates) + i] = SampleConfig[i]
    BY <1>1, <1>3, ConcatTwo
<1>5. /\ list \in Seq(FileNames) /\ Len(list) = Len(four) + Len(unit)
      /\ \A i \in 1 .. Len(four) : list[i] = four[i]
    BY <1>2, <1>3, <1>4, ConcatTwo
<1>6. /\ Len(Certificates) = 2 /\ Certificates[1] = "cert" /\ Certificates[2] = "key"
      /\ Len(SampleConfig) = 2 /\ SampleConfig[1] = "yaml"
    BY DEF Certificates, SampleConfig
<1>7. Len(unit) \in {0, 1}
    BY DEF Unit
<1>8. Len(four) = 4 /\ four[1] = "cert" /\ four[2] = "key" /\ four[3] = "yaml"
    <2>1. four[1] = "cert" /\ four[2] = "key" /\ four[2 + 1] = "yaml"
        BY <1>4, <1>6
    <2> QED
        BY <1>4, <1>6, <2>1
<1>9. Len(list) = 4 + Len(unit)
    BY <1>5, <1>8
<1>10. list[1] = four[1] /\ list[2] = four[2] /\ list[3] = four[3]
    BY <1>5, <1>8
<1>11. Len(list) \in {4, 5}
    <2>1. Len(unit) = 0 \/ Len(unit) = 1
        BY <1>7
    <2> QED
        BY <1>9, <2>1
<1> QED
    BY <1>5, <1>8, <1>10, <1>11

\* The steps of tdns config.
LEMMA WriterStep ==
    ASSUME DeployInv, ConfigCommand \/ OpenFile \/ WriteFile \/ Interrupt
    PROVE  WriterInv'
<1> USE DEF DeployInv
<1>0. /\ writer = [run |-> writer.run, todo |-> writer.todo]
      /\ writer.run \in 0 .. MaxRuns /\ writer.todo \in Seq(FileNames)
      /\ files \in [FileNames -> Contents] /\ flags \in [1 .. MaxRuns -> Flags]
    BY DEF WriterInv
<1>1. CASE ConfigCommand
    <2>1. PICK unit \in {Unit, <<>>} :
            writer' = [run |-> writer.run + 1, todo |-> Certificates \o SampleConfig \o unit]
        BY <1>1 DEF ConfigCommand
    <2> DEFINE list == Certificates \o SampleConfig \o unit
    <2>2. /\ list \in Seq(FileNames) /\ Len(list) \in {4, 5}
          /\ list[1] = "cert" /\ list[2] = "key" /\ list[3] = "yaml"
        BY ConfigFiles
    <2> HIDE DEF list
    <2>3. /\ writer'.todo = list /\ writer'.run = writer.run + 1
          /\ writer' = [run |-> writer.run + 1, todo |-> list]
        BY <2>1 DEF list
    <2>6. writer.run + 1 \in 0 .. MaxRuns /\ writer.run + 1 > 0
        BY <1>0, <1>1, DeploymentAssumption DEF DeploymentAssumption, ConfigCommand
    <2>4. \A f \in Needed : ToWrite(f)'
        BY <2>2, <2>3 DEF ToWrite, Needed
    <2>5. ~complete' /\ complete' \in BOOLEAN /\ UNCHANGED <<files, environment>>
        BY <1>1 DEF ConfigCommand
    <2>7. flags' \in [1 .. MaxRuns -> Flags]
        BY <1>0, <1>1 DEF ConfigCommand
    <2> QED
        BY <1>0, <2>2, <2>3, <2>4, <2>5, <2>6, <2>7 DEF WriterInv
<1>2. CASE OpenFile
    <2>1. /\ writer.todo # <<>> /\ files' = [files EXCEPT ![Head(writer.todo)] = Torn]
          /\ UNCHANGED <<writer, flags, environment, complete>>
        BY <1>2 DEF OpenFile
    <2>2. 1 \in 1 .. Len(writer.todo) /\ Head(writer.todo) = writer.todo[1]
        BY <1>0, <2>1
    <2>3. ToWrite(Head(writer.todo))
        BY <2>2 DEF ToWrite
    <2>4. \A f : ToWrite(f)' = ToWrite(f)
        BY <2>1 DEF ToWrite
    <2> QED
        BY <1>0, <2>1, <2>3, <2>4 DEF WriterInv, Needed, FileNames, Contents
<1>3. CASE WriteFile
    <2>1. /\ writer.todo # <<>> /\ files' = [files EXCEPT ![Head(writer.todo)] = writer.run]
          /\ writer' = [writer EXCEPT !.todo = Tail(@)]
          /\ complete' = (Tail(writer.todo) = <<>>) /\ environment' = environment
          /\ flags' = flags
        BY <1>3 DEF WriteFile
    <2>2. /\ writer'.todo = Tail(writer.todo) /\ writer'.run = writer.run
          /\ writer' = [run |-> writer.run, todo |-> Tail(writer.todo)]
          /\ Tail(writer.todo) \in Seq(FileNames) /\ Head(writer.todo) \in FileNames
        <3>1. Tail(writer.todo) \in Seq(FileNames) /\ Head(writer.todo) \in FileNames
            BY <1>0, <2>1, HeadTailProperties
        <3> DEFINE rest == Tail(writer.todo)
        <3> HIDE DEF rest
        <3>2. writer' = [writer EXCEPT !.todo = rest]
            BY <2>1 DEF rest
        <3>3. writer' = [run |-> writer.run, todo |-> rest]
            BY <1>0, <3>2
        <3> QED
            BY <3>1, <3>3 DEF rest
    <2>3. ASSUME NEW f \in Needed, ~ToWrite(f)' PROVE files'[f] = writer.run
        <3>1. CASE f = Head(writer.todo)
            BY <1>0, <2>1, <2>2, <3>1
        <3>2. CASE f # Head(writer.todo)
            <4>1. ~ToWrite(f)
                <5> SUFFICES ASSUME NEW i \in 1 .. Len(writer.todo), writer.todo[i] = f PROVE FALSE
                    BY DEF ToWrite
                <5>1. i # 1 /\ Len(Tail(writer.todo)) = Len(writer.todo) - 1
                    BY <1>0, <2>1, <3>2
                <5>2. i - 1 \in 1 .. Len(Tail(writer.todo)) /\ Tail(writer.todo)[i - 1] = f
                    BY <1>0, <2>1, <5>1
                <5> QED
                    BY <2>2, <2>3, <5>2 DEF ToWrite
            <4>2. files[f] = writer.run
                BY <2>1, <4>1 DEF WriterInv
            <4> QED
                BY <1>0, <2>1, <3>2, <4>2 DEF FileNames
        <3> QED
            BY <3>1, <3>2
    <2>4. Tail(writer.todo) = <<>> => \A f : ~ToWrite(f)'
        <3> SUFFICES ASSUME Tail(writer.todo) = <<>> PROVE \A f : ~ToWrite(f)'
            OBVIOUS
        <3>1. writer'.todo = <<>> /\ Len(<<>>) = 0
            BY <2>2
        <3> QED
            BY <3>1 DEF ToWrite
    <2>5. writer.run > 0 /\ writer.run \in Nat /\ complete' \in BOOLEAN /\ environment' \in Contents
        BY <1>0, <2>1, DeploymentAssumption DEF DeploymentAssumption, WriterInv
    <2>6. files' \in [FileNames -> Contents]
        BY <1>0, <2>1, <2>5 DEF Contents
    <2>7. writer'.todo # <<>> => ~complete'
        BY <2>1, <2>2
    <2> QED
        BY <1>0, <2>1, <2>2, <2>3, <2>4, <2>5, <2>6, <2>7 DEF WriterInv
<1>4. CASE Interrupt
    <2>1. /\ writer.todo # <<>> /\ writer' = [writer EXCEPT !.todo = <<>>]
          /\ UNCHANGED <<files, flags, environment, complete>>
        BY <1>4 DEF Interrupt
    <2>2. /\ writer'.todo = <<>> /\ writer'.run = writer.run
          /\ writer' = [run |-> writer.run, todo |-> <<>>]
        BY <1>0, <2>1
    <2> QED
        BY <1>0, <2>1, <2>2 DEF WriterInv
<1> QED
    BY <1>1, <1>2, <1>3, <1>4

\* The end of an operation: what is printed of it joins the results.
LEMMA Reported ==
    ASSUME CommandInv, NEW what \in {"ok", "error"},
           NEW why \in {"unreachable", "broken", "200", "401", "500"},
           Report(what, why), command.todo # <<>>,
           what = "ok" => command.applied \/ Head(command.todo) = "top",
           what = "error" /\ command.applied => why \in {"broken", "500"}
    PROVE  /\ CommandInv'
           /\ command'.fresh = command.fresh /\ command'.token = command.token
           /\ command'.at \in {"done", "client"}
           /\ \A i \in 1 .. Len(command'.results) :
                \/ command'.results[i].why = why
                \/ /\ i \in 1 .. Len(command.results)
                   /\ command'.results[i] = command.results[i]
<1> DEFINE new == [operation |-> Head(command.todo), report |-> what, why |-> why,
                   applied |-> command.applied]
           results == Append(command.results, new)
           rest == Tail(command.todo)
           place == IF Tail(command.todo) = <<>> THEN "done" ELSE "client"
<1>0. command \in CommandType
    BY DEF CommandInv
<1>t. /\ command.todo \in Seq(Operations) /\ command.results \in Seq(Results)
      /\ command.applied \in BOOLEAN
    BY <1>0 DEF CommandType
<1>1. new \in Results
    <2>1. Head(command.todo) \in Operations
        BY <1>t, HeadTailProperties
    <2> QED
        BY <1>t, <2>1 DEF Results
<1>2. rest \in Seq(Operations)
    BY <1>t, HeadTailProperties
<1>3. new.report = what /\ new.why = why /\ new.applied = command.applied
      /\ new.operation = Head(command.todo)
    OBVIOUS
<1>n. command' = [command EXCEPT !.results = results, !.todo = rest, !.applied = FALSE,
                                 !.status = "", !.message = "", !.at = place]
    BY DEF Report
<1>p. place \in {"done", "client"} /\ (place = "client" => rest # <<>>)
    OBVIOUS
<1> HIDE DEF new
<1>4. /\ results \in Seq(Results) /\ Len(results) = Len(command.results) + 1
      /\ \A i \in 1 .. Len(command.results) : results[i] = command.results[i]
      /\ results[Len(command.results) + 1] = new
    BY <1>t, <1>1, AppendProperties
<1>5. Len(command.results) \in Nat
    BY <1>t
<1> HIDE DEF results, rest, place
<1>6. /\ command'.results = results /\ command'.todo = rest /\ command'.applied = FALSE
      /\ command'.status = "" /\ command'.message = "" /\ command'.at = place
      /\ command'.fresh = command.fresh /\ command'.token = command.token
    BY <1>0, <1>n DEF CommandType
<1>7. command' \in CommandType
    BY <1>0, <1>2, <1>4, <1>n, <1>p DEF CommandType
<1>8. \A i \in 1 .. Len(results) :
        \/ results[i] = new
        \/ i \in 1 .. Len(command.results) /\ results[i] = command.results[i]
    BY <1>4, <1>5
<1>9. \A i \in 1 .. Len(command.results) :
        /\ command.results[i].report = "ok" =>
             command.results[i].applied \/ command.results[i].operation = "top"
        /\ command.results[i].report = "error" /\ command.results[i].applied =>
             command.results[i].why \in {"broken", "500"}
    BY DEF CommandInv
<1>10. \A i \in 1 .. Len(results) :
        /\ results[i].report = "ok" => results[i].applied \/ results[i].operation = "top"
        /\ results[i].report = "error" /\ results[i].applied =>
             results[i].why \in {"broken", "500"}
    BY <1>3, <1>8, <1>9
<1>11. CommandInv'
    BY <1>6, <1>7, <1>10, <1>p DEF CommandInv
<1> QED
    BY <1>3, <1>6, <1>8, <1>11, <1>p

LEMMA ReportedFresh ==
    ASSUME DeployInv, NEW what \in {"ok", "error"},
           NEW why \in {"unreachable", "broken", "200", "401", "500"},
           Report(what, why), command.todo # <<>>,
           what = "ok" => command.applied \/ Head(command.todo) = "top",
           what = "error" /\ command.applied => why \in {"broken", "500"},
           command.fresh => why # "401" /\ (why = "unreachable" <=> ~Suits(flags[writer.run])),
           UNCHANGED <<files, writer, flags, environment, api, complete>>
    PROVE  DeployInv'
<1>1. CommandInv /\ FreshInv /\ WriterInv' /\ ServerInv'
    BY DEF DeployInv, WriterInv, ServerInv, ToWrite
<1>2. /\ CommandInv'
      /\ command'.fresh = command.fresh /\ command'.token = command.token
      /\ command'.at \in {"done", "client"}
      /\ \A i \in 1 .. Len(command'.results) :
           \/ command'.results[i].why = why
           \/ i \in 1 .. Len(command.results) /\ command'.results[i] = command.results[i]
    BY <1>1, Reported
<1>3. FreshInv'
    BY <1>1, <1>2 DEF FreshInv
<1> QED
    BY <1>1, <1>2, <1>3 DEF DeployInv

LEMMA OneAndTwo ==
    ASSUME NEW S, NEW s \in S, NEW t \in S
    PROVE  /\ <<s>> \in Seq(S) /\ <<s>> # <<>>
           /\ <<s, t>> \in Seq(S) /\ <<s, t>> # <<>>
OBVIOUS

\* A command has an operation at least.
LEMMA CommandsTyped == \A operations \in Commands : operations \in Seq(Operations) /\ operations # <<>>
<1>1. \A s \in Operations : <<s>> \in Seq(Operations) /\ <<s>> # <<>>
    BY OneAndTwo
<1>2. \A s, t \in Operations : <<s, t>> \in Seq(Operations) /\ <<s, t>> # <<>>
    BY OneAndTwo
<1>3. ASSUME NEW o \in Commands
      PROVE  (\E s \in Operations : o = <<s>>) \/ (\E s, t \in Operations : o = <<s, t>>)
    BY Zenon DEF Operations, Commands, StartCommands, StopCommands, DNSLogCommands, TopCommand,
                 AliasCommand, ReplaceCommands
<1> QED
    BY <1>1, <1>2, <1>3, Zenon

\* The other steps of a command leave its results.
LEMMA CommandStep ==
    ASSUME DeployInv, command' \in CommandType,
           command'.results = command.results, command'.todo = command.todo,
           command'.at \in {"client", "send", "sent", "answered", "broken"} => command.todo # <<>>,
           command'.at \in {"client", "send", "sent"} => ~command'.applied,
           command'.at = "answered" =>
             \/ command'.status = "200" /\ command'.message = "OK" /\ command'.applied
             \/ command'.status = "200" /\ command'.message = "error" /\ ~command'.applied
             \/ command'.status = "401" /\ ~command'.applied
             \/ command'.status = "500"
    PROVE  CommandInv'
BY DEF DeployInv, CommandInv

LEMMA CommandNext ==
    ASSUME DeployInv,
           \/ NewHTTPClient \/ Send \/ HandleRequest \/ Decode \/ Break \/ EndCommand
           \/ \E operations \in Commands : BeginCommand(operations)
    PROVE  DeployInv'
<1>0. /\ command \in CommandType /\ CommandInv /\ FreshInv /\ WriterInv /\ ServerInv
      /\ command.at \in {"client", "send", "sent", "answered", "broken"} => command.todo # <<>>
      /\ command.at \in {"client", "send", "sent"} => ~command.applied
    BY DEF DeployInv, CommandInv
<1>1. UNCHANGED <<files, writer, flags, environment, api, complete>>
    BY DEF NewHTTPClient, Send, HandleRequest, Decode, Break, EndCommand, BeginCommand
<1>2. WriterInv' /\ ServerInv'
    BY <1>0, <1>1 DEF WriterInv, ServerInv, ToWrite
<1>3. CASE \E operations \in Commands : BeginCommand(operations)
    <2>1. PICK operations \in Commands : BeginCommand(operations)
        BY <1>3
    <2>2. operations \in Seq(Operations) /\ operations # <<>>
        BY CommandsTyped
    <2> DEFINE token == IF Whole(files["yaml"]) THEN files["yaml"] ELSE Nothing
               fresh == api.fresh /\ api.at = "up" /\ environment = Nothing
    <2>3. token \in Contents /\ fresh \in BOOLEAN
        BY <1>0 DEF WriterInv, FileNames, Needed, Contents
    <2>4. fresh => api.fresh /\ api.at = "up" /\ environment = Nothing /\ token = writer.run
        <3> SUFFICES ASSUME fresh PROVE token = writer.run
            OBVIOUS
        <3>1. writer.run > 0 /\ files["yaml"] = writer.run /\ writer.run \in 0 .. MaxRuns
            BY <1>0 DEF WriterInv, ServerInv, Needed
        <3> QED
            BY <3>1, DeploymentAssumption DEF DeploymentAssumption, Whole
    <2>5. command' = [NoCommand EXCEPT !.at = "client", !.todo = operations,
                                       !.token = token, !.fresh = fresh]
        BY <2>1 DEF BeginCommand
    <2> HIDE DEF token, fresh
    <2>6. /\ command'.at = "client" /\ command'.todo = operations /\ command'.token = token
          /\ command'.fresh = fresh /\ command'.results = <<>> /\ command'.applied = FALSE
        BY <2>5 DEF NoCommand
    <2>7. command' \in CommandType
        BY <2>2, <2>3, <2>5, NoCommandTyped DEF CommandType
    <2>8. CommandInv' /\ FreshInv'
        BY <1>1, <2>2, <2>4, <2>6, <2>7, Len(<<>>) = 0 DEF CommandInv, FreshInv
    <2> QED
        BY <1>2, <2>8 DEF DeployInv
<1>4. CASE NewHTTPClient
    <2>0. command.at = "client"
        BY <1>4 DEF NewHTTPClient
    <2>1. CASE command.token # Nothing /\ Whole(files["cert"])
        <3>1. command' = [command EXCEPT !.ca = files["cert"], !.at = "send"]
            BY <1>4, <2>1 DEF NewHTTPClient
        <3>2. files["cert"] \in Contents
            BY <1>0 DEF WriterInv, FileNames, Needed
        <3>3. command' \in CommandType
            BY <1>0, <3>1, <3>2 DEF CommandType
        <3>4. /\ command'.results = command.results /\ command'.todo = command.todo
              /\ command'.at = "send" /\ command'.applied = command.applied
              /\ command'.ca = files["cert"] /\ command'.token = command.token
              /\ command'.fresh = command.fresh
            BY <1>0, <3>1 DEF CommandType
        <3>5. CommandInv'
            BY <1>0, <2>0, <3>3, <3>4, CommandStep
        <3>6. command.fresh => files["cert"] = writer.run
            BY <1>0 DEF FreshInv, ServerInv, WriterInv, Needed
        <3>7. FreshInv'
            BY <1>0, <1>1, <3>4, <3>6 DEF FreshInv
        <3> QED
            BY <1>2, <3>5, <3>7 DEF DeployInv
    <2>2. CASE ~(command.token # Nothing /\ Whole(files["cert"]))
        <3>1. Report("error", "unreachable")
            BY <1>4, <2>2 DEF NewHTTPClient
        <3>2. ~command.fresh
            <4> SUFFICES ASSUME command.fresh PROVE FALSE
                OBVIOUS
            <4>1. /\ command.token = writer.run /\ files["cert"] = writer.run
                  /\ writer.run \in 0 .. MaxRuns /\ writer.run > 0
                BY <1>0 DEF FreshInv, ServerInv, WriterInv, Needed
            <4> QED
                BY <2>2, <4>1, DeploymentAssumption DEF DeploymentAssumption, Whole
        <3> QED
            BY <1>0, <1>1, <2>0, <3>1, <3>2, ReportedFresh
    <2> QED
        BY <2>1, <2>2
<1>5. CASE Send
    <2>0. command.at = "send"
        BY <1>5 DEF Send
    <2> DEFINE reached == /\ api.at = "up" /\ api.addr \in LocalAddrs
                          /\ api.cert = command.ca /\ ClientHost \in flags[api.cert].hosts
    <2>3. command.fresh => (reached <=> Suits(flags[writer.run]))
        BY <1>0, <2>0 DEF FreshInv, ServerInv, Suits
    <2>1. CASE reached
        <3>1. command' = [command EXCEPT !.at = "sent"]
            BY <1>5, <2>1 DEF Send
        <3>2. command' \in CommandType
            BY <1>0, <3>1 DEF CommandType
        <3>3. /\ command'.results = command.results /\ command'.todo = command.todo
              /\ command'.at = "sent" /\ command'.applied = command.applied
              /\ command'.token = command.token /\ command'.fresh = command.fresh
            BY <1>0, <3>1 DEF CommandType
        <3>4. CommandInv' /\ FreshInv'
            BY <1>0, <1>1, <2>0, <2>1, <2>3, <3>2, <3>3, CommandStep DEF FreshInv
        <3> QED
            BY <1>2, <3>4 DEF DeployInv
    <2>2. CASE ~reached
        <3>1. Report("error", "unreachable")
            BY <1>5, <2>2 DEF Send
        <3>2. command.fresh => ~Suits(flags[writer.run])
            BY <2>2, <2>3
        <3> QED
            BY <1>0, <1>1, <2>0, <3>1, <3>2, ReportedFresh
    <2> QED
        BY <2>1, <2>2
<1>6. CASE HandleRequest
    <2>1. PICK status \in {"200", "401", "500"}, message \in {"OK", "error"}, applied \in BOOLEAN :
            /\ command' = [command EXCEPT !.at = "answered", !.status = status,
                                          !.message = message, !.applied = applied]
            /\ \/ status = "200" /\ message = "OK" /\ applied
               \/ status = "200" /\ message = "error" /\ ~applied
               \/ status = "401" /\ ~applied
               \/ status = "500"
            /\ status = "401" => command.token # api.signer
        BY <1>6 DEF HandleRequest
    <2>2. command.at = "sent"
        BY <1>6 DEF HandleRequest
    <2>3. command' \in CommandType
        BY <1>0, <2>1 DEF CommandType
    <2>4. /\ command'.results = command.results /\ command'.todo = command.todo
          /\ command'.at = "answered" /\ command'.applied = applied
          /\ command'.status = status /\ command'.message = message
          /\ command'.token = command.token /\ command'.fresh = command.fresh
        BY <1>0, <2>1 DEF CommandType
    <2>5. command.fresh => status # "401"
        BY <1>0, <2>1 DEF FreshInv, ServerInv
    <2>6. CommandInv'
        BY <1>0, <2>1, <2>2, <2>3, <2>4, CommandStep
    <2>7. FreshInv'
        BY <1>0, <1>1, <2>2, <2>4, <2>5 DEF FreshInv
    <2> QED
        BY <1>2, <2>6, <2>7 DEF DeployInv
<1>7. CASE Decode
    <2> DEFINE what == IF command.status = "200" THEN Printed ELSE "error"
    <2>1. command.at = "answered" /\ Report(what, command.status)
        BY <1>7 DEF Decode
    <2>2. \/ command.status = "200" /\ command.message = "OK" /\ command.applied
          \/ command.status = "200" /\ command.message = "error" /\ ~command.applied
          \/ command.status = "401" /\ ~command.applied
          \/ command.status = "500"
        BY <1>0, <2>1 DEF CommandInv
    <2>3. <<Head(command.todo)>> = TopCommand => Head(command.todo) = "top"
        BY DEF TopCommand
    <2>4. /\ what \in {"ok", "error"}
          /\ what = "ok" => command.applied \/ Head(command.todo) = "top"
          /\ what = "error" /\ command.applied => command.status = "500"
        BY <2>2, <2>3 DEF Printed
    <2>5. command.fresh => command.status # "401" /\ Suits(flags[writer.run])
        BY <1>0, <2>1 DEF FreshInv
    <2> HIDE DEF what
    <2> QED
        BY <1>0, <1>1, <2>1, <2>2, <2>4, <2>5, ReportedFresh
<1>8. CASE Break
    <2>1. command.at \in {"sent", "answered", "broken"} /\ Report("error", "broken")
        BY <1>8 DEF Break
    <2>2. command.fresh => Suits(flags[writer.run])
        BY <1>0, <2>1 DEF FreshInv
    <2> QED
        BY <1>0, <1>1, <2>1, <2>2, ReportedFresh
<1>9. CASE EndCommand
    <2>1. command' = NoCommand
        BY <1>9 DEF EndCommand
    <2>2. command'.at = "none" /\ command'.results = <<>> /\ command'.fresh = FALSE
        BY <2>1 DEF NoCommand
    <2>3. CommandInv' /\ FreshInv'
        BY <2>1, <2>2, NoCommandTyped, Len(<<>>) = 0 DEF CommandInv, FreshInv
    <2> QED
        BY <1>2, <2>3 DEF DeployInv
<1> QED
    BY <1>3, <1>4, <1>5, <1>6, <1>7, <1>8, <1>9

\* The steps of the server.
LEMMA ServerNext ==
    ASSUME DeployInv, StartServer \/ LoadCertificate \/ LoadKey \/ StopServer \/ WriteFails
    PROVE  DeployInv'
<1>0. /\ WriterInv /\ ServerInv /\ CommandInv /\ FreshInv /\ command \in CommandType
      /\ files["yaml"] \in Contents /\ files["cert"] \in Contents /\ environment \in Contents
      /\ complete \in BOOLEAN
    BY DEF DeployInv, WriterInv, CommandInv, FileNames, Needed
<1>1. UNCHANGED <<files, writer, flags, environment, complete>>
    BY DEF StartServer, LoadCertificate, LoadKey, StopServer, WriteFails
<1>2. WriterInv'
    BY <1>0, <1>1 DEF WriterInv, ToWrite
<1>3. complete => /\ writer.run > 0 /\ writer.run \in 0 .. MaxRuns
                  /\ \A f \in Needed : files[f] = writer.run
    BY <1>0 DEF WriterInv
<1>4. CASE StartServer \/ LoadCertificate \/ LoadKey
    <2>0. command' = command /\ api.at # "up"
        BY <1>4 DEF StartServer, LoadCertificate, LoadKey
    <2>1. CommandInv' /\ ~command.fresh
        BY <1>0, <2>0 DEF CommandInv, FreshInv
    <2>2. FreshInv'
        BY <2>0, <2>1 DEF FreshInv
    <2>3. CASE StartServer
        <3> DEFINE signer == IF environment = Nothing THEN files["yaml"] ELSE environment
        <3>1. signer \in Contents
            BY <1>0
        <3>2. CASE Whole(files["yaml"])
            <4> DEFINE addr == flags[files["yaml"]].listenapi
            <4>1. api' = [at |-> "cert", cert |-> Nothing, fresh |-> complete, addr |-> addr, signer |-> signer]
                BY <2>3, <3>2 DEF StartServer
            <4>3. addr \in ApiAddrs
                BY <1>0, <3>2 DEF WriterInv, Whole, Flags
            <4>4. complete => addr = flags[writer.run].listenapi
                BY <1>3 DEF Needed
            <4>2. complete /\ environment = Nothing => signer = writer.run
                BY <1>3 DEF Needed
            <4> HIDE DEF signer, addr
            <4> QED
                BY <1>0, <1>1, <1>2, <2>1, <2>2, <3>1, <4>1, <4>2, <4>3, <4>4 DEF DeployInv, ServerInv, Contents
        <3>3. CASE ~Whole(files["yaml"])
            <4>1. api' = [Off EXCEPT !.at = "dns"]
                BY <2>3, <3>3 DEF StartServer
            <4>2. api'.fresh = FALSE /\ api' = [at |-> "dns", addr |-> Nothing, signer |-> Nothing,
                                                cert |-> Nothing, fresh |-> FALSE]
                BY <4>1 DEF Off
            <4> QED
                BY <1>2, <2>1, <2>2, <4>2 DEF DeployInv, ServerInv, Contents
        <3> QED
            BY <3>2, <3>3
    <2>4. CASE LoadCertificate
        <3>1. api.at = "cert" /\ api' = [api EXCEPT !.at = "key", !.cert = files["cert"]]
            BY <2>4 DEF LoadCertificate
        <3>2. /\ api'.at = "key" /\ api'.cert = files["cert"] /\ api'.fresh = api.fresh
              /\ api'.signer = api.signer /\ api'.addr = api.addr
              /\ api' \in [at : {"off", "cert", "key", "up", "dns"}, fresh : BOOLEAN,
                           addr : ApiAddrs \cup {Nothing}, signer : Contents, cert : Contents]
            BY <1>0, <3>1 DEF ServerInv
        <3>3. ServerInv'
            BY <1>0, <1>1, <1>3, <3>2 DEF ServerInv, Needed
        <3> QED
            BY <1>2, <2>1, <2>2, <3>3 DEF DeployInv
    <2>5. CASE LoadKey
        <3> DEFINE place == IF Whole(api.cert) /\ files["key"] = api.cert THEN "up" ELSE "dns"
        <3>1. api.at = "key" /\ api' = [api EXCEPT !.at = place]
            BY <2>5 DEF LoadKey
        <3>2. api.fresh => place = "up"
            <4> SUFFICES ASSUME api.fresh PROVE place = "up"
                OBVIOUS
            <4>1. /\ api.cert = writer.run /\ files["key"] = writer.run
                  /\ writer.run > 0 /\ writer.run \in 0 .. MaxRuns
                BY <1>0, <1>3, <3>1 DEF ServerInv, Needed
            <4> QED
                BY <4>1, DeploymentAssumption DEF DeploymentAssumption, Whole
        <3>3. place \in {"up", "dns"}
            OBVIOUS
        <3> HIDE DEF place
        <3>4. /\ api'.at = place /\ api'.cert = api.cert /\ api'.fresh = api.fresh
              /\ api'.signer = api.signer /\ api'.addr = api.addr
              /\ api' \in [at : {"off", "cert", "key", "up", "dns"}, fresh : BOOLEAN,
                           addr : ApiAddrs \cup {Nothing}, signer : Contents, cert : Contents]
            BY <1>0, <3>1, <3>3 DEF ServerInv
        <3>5. ServerInv'
            BY <1>0, <1>1, <3>1, <3>2, <3>4 DEF ServerInv
        <3> QED
            BY <1>2, <2>1, <2>2, <3>5 DEF DeployInv
    <2> QED
        BY <1>4, <2>3, <2>4, <2>5
<1>5. CASE StopServer \/ WriteFails
    <2>1. api' = Off
        BY <1>5 DEF StopServer, WriteFails
    <2>2. ServerInv'
        BY <2>1 DEF ServerInv, Off, Contents
    <2> DEFINE place == IF command.at \in {"sent", "answered"} THEN "broken" ELSE command.at
    <2>3. command' = [command EXCEPT !.fresh = FALSE, !.at = place]
        BY <1>0, <1>5 DEF StopServer, WriteFails
    <2>4. /\ place \in {"none", "client", "send", "broken", "done"}
          /\ place = "broken" => command.at \in {"sent", "answered", "broken"}
          /\ place # "broken" => place = command.at
        BY <1>0 DEF CommandType
    <2> HIDE DEF place
    <2>5. command' \in CommandType
        BY <1>0, <2>3, <2>4 DEF CommandType
    <2>6. /\ command'.results = command.results /\ command'.todo = command.todo
          /\ command'.at = place /\ command'.applied = command.applied
          /\ command'.fresh = FALSE
        BY <1>0, <2>3 DEF CommandType
    <2>7. CommandInv'
        BY <1>0, <2>4, <2>5, <2>6, CommandStep DEF CommandInv
    <2>8. FreshInv'
        BY <2>6 DEF FreshInv
    <2> QED
        BY <1>2, <2>2, <2>7, <2>8 DEF DeployInv
<1> QED
    BY <1>4, <1>5

\* A run of tdns config takes away from a server and a command that they are fresh.
LEMMA WriterNext ==
    ASSUME DeployInv, ConfigCommand \/ OpenFile \/ WriteFile \/ Interrupt
    PROVE  DeployInv'
<1>0. /\ WriterInv' /\ WriterInv /\ ServerInv /\ CommandInv /\ FreshInv
      /\ command \in CommandType /\ environment' = environment
    BY WriterStep DEF DeployInv, CommandInv, ConfigCommand, OpenFile, WriteFile, Interrupt
<1>1. CASE ConfigCommand
    <2>1. /\ api' = [api EXCEPT !.fresh = FALSE]
          /\ command' = [command EXCEPT !.fresh = FALSE]
        BY <1>1 DEF ConfigCommand
    <2>2. ServerInv'
        BY <1>0, <2>1 DEF ServerInv
    <2>3. /\ command' \in CommandType /\ command'.fresh = FALSE
          /\ command'.results = command.results /\ command'.todo = command.todo
          /\ command'.at = command.at /\ command'.applied = command.applied
          /\ command'.status = command.status /\ command'.message = command.message
        BY <1>0, <2>1 DEF CommandType
    <2>4. CommandInv'
        BY <1>0, <2>3 DEF CommandInv
    <2>5. FreshInv'
        BY <2>3 DEF FreshInv
    <2> QED
        BY <1>0, <2>2, <2>4, <2>5 DEF DeployInv
<1>2. CASE OpenFile \/ WriteFile \/ Interrupt
    <2>1. UNCHANGED <<api, command, flags>> /\ writer.todo # <<>>
        BY <1>2 DEF OpenFile, WriteFile, Interrupt
    <2>2. ~api.fresh /\ ~command.fresh
        BY <1>0, <2>1 DEF WriterInv, ServerInv, FreshInv
    <2>3. ServerInv' /\ CommandInv' /\ FreshInv'
        BY <1>0, <2>1, <2>2 DEF ServerInv, CommandInv, FreshInv
    <2> QED
        BY <1>0, <2>3 DEF DeployInv
<1> QED
    BY <1>1, <1>2

LEMMA DeployStep == DeployInv /\ [DeployNext]_deployVars => DeployInv'
<1> SUFFICES ASSUME DeployInv, [DeployNext]_deployVars PROVE DeployInv'
    OBVIOUS
<1>1. CASE UNCHANGED deployVars
    BY <1>1 DEF deployVars, DeployInv, WriterInv, ToWrite, ServerInv, CommandInv, FreshInv
<1>2. CASE DeployNext
    BY <1>2, WriterNext, ServerNext, CommandNext DEF DeployNext
<1> QED
    BY <1>1, <1>2

\* What tdns config leaves when it comes to its end belongs together, whatever was
\* interrupted before: the server that is started with it gets its management API
\* up, and the commands are let in, and reach it exactly when --listenapi and
\* --hosts suit the address that tdns config writes for them.
THEOREM DeploymentsWork == DeploySpec => []FreshDeploymentWorks
<1>1. DeployInv => FreshDeploymentWorks
    <2> SUFFICES ASSUME DeployInv PROVE FreshDeploymentWorks
        OBVIOUS
    <2>0. command.results \in Seq(Results)
        BY DEF DeployInv, CommandInv, CommandType
    <2>1. DOMAIN command.results = 1 .. Len(command.results)
        BY <2>0
    <2> QED
        BY <2>1 DEF DeployInv, ServerInv, FreshInv, FreshDeploymentWorks
<1> QED
    BY <1>1, DeployInitial, DeployStep, PTL DEF DeploySpec

\* What a command of tdns adm prints of an operation is true, whenever the
\* connection breaks or the server ends.
THEOREM ReportsAreTrue == DeploySpec => []ReportsTrue
<1>1. DeployInv => ReportsTrue
    <2> SUFFICES ASSUME DeployInv PROVE ReportsTrue
        OBVIOUS
    <2>0. command.results \in Seq(Results)
        BY DEF DeployInv, CommandInv, CommandType
    <2>1. DOMAIN command.results = 1 .. Len(command.results)
        BY <2>0
    <2>2. \A s : s = "top" => <<s>> = TopCommand
        BY DEF TopCommand
    <2> QED
        BY <2>1, <2>2 DEF DeployInv, CommandInv, ReportsTrue
<1> QED
    BY <1>1, DeployInitial, DeployStep, PTL DEF DeploySpec

-----------------------------------------------------------------------------
(* Signing keys.                                                           *)

LEMMA MinIs ==
    ASSUME NEW S, S \subseteq Int, NEW m \in S, \A y \in S : m <= y
    PROVE  Min(S) = m
<1>1. \A x \in S : (\A y \in S : x <= y) => x = m
    <2> SUFFICES ASSUME NEW x \in S, \A y \in S : x <= y PROVE x = m
        OBVIOUS
    <2>1. x <= m /\ m <= x /\ x \in Int /\ m \in Int
        OBVIOUS
    <2> QED
        BY <2>1
<1> QED
    BY <1>1 DEF Min

LEMMA LoadOne == ASSUME NEW a PROVE LoadSigningKey(<<a>>) = a
<1> DEFINE given == {i \in DOMAIN <<a>> : <<a>>[i] # NoSigningKey}
<1>1. LoadSigningKey(<<a>>) = IF given = {} THEN NoSigningKey ELSE <<a>>[Min(given)]
    BY DEF LoadSigningKey
<1>2. DOMAIN <<a>> = 1 .. 1 /\ <<a>>[1] = a
    OBVIOUS
<1>3. a = NoSigningKey => given = {}
    BY <1>2
<1>4. a # NoSigningKey => given = {1}
    BY <1>2
<1>5. Min({1}) = 1
    BY MinIs
<1> HIDE DEF given
<1> QED
    BY <1>1, <1>2, <1>3, <1>4, <1>5

LEMMA LoadTwo ==
    ASSUME NEW a, NEW b
    PROVE  LoadSigningKey(<<a, b>>) = IF a # NoSigningKey THEN a ELSE b
<1> DEFINE given == {i \in DOMAIN <<a, b>> : <<a, b>>[i] # NoSigningKey}
<1>1. LoadSigningKey(<<a, b>>) = IF given = {} THEN NoSigningKey ELSE <<a, b>>[Min(given)]
    BY DEF LoadSigningKey
<1>2. DOMAIN <<a, b>> = 1 .. 2 /\ <<a, b>>[1] = a /\ <<a, b>>[2] = b
    OBVIOUS
<1>3. /\ given \subseteq {1, 2}
      /\ 1 \in given <=> a # NoSigningKey
      /\ 2 \in given <=> b # NoSigningKey
    BY <1>2
<1> HIDE DEF given
<1>4. ASSUME a # NoSigningKey PROVE Min(given) = 1
    <2>1. given \subseteq Int /\ 1 \in given /\ \A y \in given : 1 <= y
        BY <1>3, <1>4
    <2> QED
        BY <2>1, MinIs
<1>5. ASSUME a = NoSigningKey, b # NoSigningKey PROVE Min(given) = 2
    <2>1. given \subseteq Int /\ 2 \in given /\ \A y \in given : 2 <= y
        BY <1>3, <1>5
    <2> QED
        BY <2>1, MinIs
<1> QED
    BY <1>1, <1>2, <1>3, <1>4, <1>5

LEMMA ActiveKey ==
    /\ Active = IF conf.active # NoSigningKey THEN conf.active ELSE conf.legacy
    /\ Active' = IF conf'.active # NoSigningKey THEN conf'.active ELSE conf'.legacy
    /\ Previous = conf.previous /\ Previous' = conf'.previous
BY LoadOne, LoadTwo DEF Active, Previous

LEMMA Earlier ==
    ASSUME NEW a \in Int, NEW b \in Int
    PROVE  Min({a, b}) \in Int /\ Min({a, b}) <= a /\ (a >= 0 /\ b >= 0 => Min({a, b}) >= 0)
<1>1. CASE a <= b
    <2>1. a \in {a, b} /\ \A y \in {a, b} : a <= y
        BY <1>1
    <2> QED
        BY <2>1 DEF Min
<1>2. CASE b < a
    <2>1. b \in {a, b} /\ \A y \in {a, b} : b <= y
        BY <1>2
    <2> QED
        BY <1>2, <2>1 DEF Min
<1> QED
    BY <1>1, <1>2

\* The keys that have been made up to some number; a key that comes later is none
\* of them.
Made(n) == {SigningKeys[i] : i \in 1 .. n}

LEMMA LaterKey ==
    ASSUME NEW n \in Nat, n < Len(SigningKeys)
    PROVE  /\ Len(SigningKeys) \in Nat
           /\ SigningKeys[n + 1] \notin Made(n) \cup {NoSigningKey, LegacyKey}
           /\ SigningKeys[n + 1] \in Made(n + 1) /\ Made(n) \subseteq Made(n + 1)
<1>1. DOMAIN SigningKeys = 1 .. Len(SigningKeys) /\ Len(SigningKeys) \in Nat
    BY ApiAccessAssumption DEF ApiAccessAssumption
<1>2. n + 1 \in DOMAIN SigningKeys /\ \A i \in 1 .. n : i \in DOMAIN SigningKeys /\ i # n + 1
    BY <1>1
<1>3. SigningKeys[n + 1] \notin {NoSigningKey, LegacyKey}
    BY <1>2, ApiAccessAssumption DEF ApiAccessAssumption
<1>4. \A i \in 1 .. n : SigningKeys[i] # SigningKeys[n + 1]
    BY <1>2, ApiAccessAssumption DEF ApiAccessAssumption
<1>5. n + 1 \in 1 .. n + 1 /\ \A i \in 1 .. n : i \in 1 .. n + 1
    OBVIOUS
<1>6. SigningKeys[n + 1] \in Made(n + 1) /\ Made(n) \subseteq Made(n + 1)
    BY <1>5 DEF Made
<1> QED
    BY <1>1, <1>3, <1>4, <1>6 DEF Made

\* The keys in the configuration and in the server, and the tokens that were issued:
\* those of the active key are good, those of the previous one until the cutoff, and
\* the others no more.
BearerToken == [key : {LegacyKey} \cup Made(Len(SigningKeys)), scope : {"ro", "rw"},
          expires : Int, cutoff : Nat]

KnownKeys == {NoSigningKey, LegacyKey} \cup Made(generated)

ConfInv ==
    /\ clock \in 0 .. EndOfTime
    /\ generated \in Nat /\ generated <= Len(SigningKeys)
    /\ conf = [active |-> conf.active, legacy |-> conf.legacy, previous |-> conf.previous,
               until |-> conf.until]
    /\ {conf.active, conf.legacy, conf.previous} \subseteq KnownKeys
    /\ conf.until \in Nat
    /\ conf.previous # NoSigningKey => conf.previous # Active
    /\ manager # NoServer => manager.active \in KnownKeys

\* Stated of one token, so that a step can be followed through it.
TokenRight(t) ==
    /\ t \in BearerToken
    /\ t.key # NoSigningKey /\ t.key \in KnownKeys
    /\ t.key = Active => t.cutoff = Never
    /\ t.key # Active /\ t.key = Previous => t.cutoff = conf.until
    /\ t.key # Active /\ t.key # Previous => t.cutoff <= clock

TokenInv == IsFiniteSet(issued) /\ \A t \in issued : TokenRight(t)

\* A request whose tokens are the ones that were issued, unless the key has been
\* rotated meanwhile and the server has not been started again; and what is left
\* of its checks.
RequestType ==
    [at : {"authenticate", "browser", "csrf", "handle", "refused"}, bearers : SUBSET BearerToken,
     cookie : BOOLEAN, method : {"GET", "POST"}, page : {"own", "foreign", "program"},
     headers : UNION {Headers(p) : p \in {"own", "foreign", "program"}}, csrf : BOOLEAN]

RequestInv ==
    /\ session \in [scope : {"ro", "rw"}, life : {"live", "expired", "gone"}]
    /\ request = NoRequest \/ request \in RequestType
    /\ request.at # "none" =>
         /\ manager # NoServer
         /\ manager.active = Active => request.bearers \subseteq issued
         /\ \A s, t \in request.bearers : s = t
         /\ request.headers \in Headers(request.page)
    /\ request.at \in {"browser", "csrf"} =>
         /\ request.cookie /\ request.bearers = {} /\ IsUnsafeMethod(request.method)
         /\ ScopeAllows(session.scope, Requirement(request.method))
    /\ request.at = "csrf" => request.page = "own"

AccessInv == ConfInv /\ TokenInv /\ RequestInv

\* The headers tell the pages of the server from others.
LEMMA OriginTold ==
    ASSUME NEW p \in {"own", "foreign", "program"}, NEW h \in Headers(p)
    PROVE  BrowserOrigin(h) <=> p = "own"
<1>1. CASE p = "own"
    <2>1. Headers(p) = {[site |-> "same-origin", origin |-> "own", referer |-> "own"],
                        [site |-> "", origin |-> "own", referer |-> ""],
                        [site |-> "", origin |-> "", referer |-> "own"]}
        BY <1>1 DEF Headers
    <2>2. CASE h = [site |-> "same-origin", origin |-> "own", referer |-> "own"]
        BY <1>1, <2>2 DEF BrowserOrigin, OriginOrReferer
    <2>3. CASE h = [site |-> "", origin |-> "own", referer |-> ""]
        BY <1>1, <2>3 DEF BrowserOrigin, OriginOrReferer
    <2>4. CASE h = [site |-> "", origin |-> "", referer |-> "own"]
        BY <1>1, <2>4 DEF BrowserOrigin, OriginOrReferer
    <2> QED
        BY <2>1, <2>2, <2>3, <2>4, Zenon
<1>2. CASE p = "foreign"
    <2>1. Headers(p) = {[site |-> "cross-site", origin |-> "other", referer |-> "other"],
                        [site |-> "same-site", origin |-> "", referer |-> ""],
                        [site |-> "", origin |-> "other", referer |-> "own"],
                        [site |-> "", origin |-> "", referer |-> "other"]}
        BY <1>2 DEF Headers
    <2>2. CASE h = [site |-> "cross-site", origin |-> "other", referer |-> "other"]
        BY <1>2, <2>2 DEF BrowserOrigin, OriginOrReferer
    <2>3. CASE h = [site |-> "same-site", origin |-> "", referer |-> ""]
        BY <1>2, <2>3 DEF BrowserOrigin, OriginOrReferer
    <2>4. CASE h = [site |-> "", origin |-> "other", referer |-> "own"]
        BY <1>2, <2>4 DEF BrowserOrigin, OriginOrReferer
    <2>5. CASE h = [site |-> "", origin |-> "", referer |-> "other"]
        BY <1>2, <2>5 DEF BrowserOrigin, OriginOrReferer
    <2> QED
        BY <2>1, <2>2, <2>3, <2>4, <2>5, Zenon
<1>3. CASE p = "program"
    <2>1. Headers(p) = {[site |-> "", origin |-> "", referer |-> ""]}
        BY <1>3 DEF Headers
    <2>2. CASE h = [site |-> "", origin |-> "", referer |-> ""]
        BY <1>3, <2>2 DEF BrowserOrigin, OriginOrReferer
    <2> QED
        BY <2>1, <2>2, Zenon
<1> QED
    BY <1>1, <1>2, <1>3

LEMMA AtMostOne ==
    ASSUME NEW S, IsFiniteSet(S), Cardinality(S) <= 1
    PROVE  \A x, y \in S : x = y
<1>1. Cardinality(S) \in Nat
    BY FS_CardinalityType
<1>2. Cardinality(S) = 0 \/ Cardinality(S) = 1
    BY <1>1
<1>3. S = {} \/ \E x : S = {x}
    BY <1>2, FS_EmptySet, FS_Singleton
<1> QED
    BY <1>3

LEMMA AccessInitial == AccessInit => AccessInv
<1> SUFFICES ASSUME AccessInit PROVE AccessInv
    OBVIOUS
<1>1. PICK legacy \in {LegacyKey, NoSigningKey} :
        conf = [active |-> NoSigningKey, legacy |-> legacy, previous |-> NoSigningKey, until |-> 0]
    BY DEF AccessInit
<1>2. /\ conf.active = NoSigningKey /\ conf.legacy = legacy /\ conf.previous = NoSigningKey
      /\ conf.until = 0
    BY <1>1
<1>3. Len(SigningKeys) \in Nat /\ EndOfTime \in Nat
    BY ApiAccessAssumption DEF ApiAccessAssumption
<1>4. ConfInv
    BY <1>1, <1>2, <1>3 DEF AccessInit, ConfInv, KnownKeys
<1>5. TokenInv
    BY FS_EmptySet DEF AccessInit, TokenInv
<1>6. RequestInv
    BY DEF AccessInit, RequestInv, NoRequest
<1> QED
    BY <1>4, <1>5, <1>6 DEF AccessInv

LEMMA ActiveKnown ==
    ASSUME ConfInv
    PROVE  /\ Active \in KnownKeys /\ Previous \in KnownKeys
           /\ Len(SigningKeys) \in Nat /\ EndOfTime \in Nat /\ Never \in Nat
           /\ KnownKeys \subseteq {NoSigningKey, LegacyKey} \cup Made(Len(SigningKeys))
<1>1. Len(SigningKeys) \in Nat /\ EndOfTime \in Nat
    BY ApiAccessAssumption DEF ApiAccessAssumption
<1>2. \A i \in 1 .. generated : i \in 1 .. Len(SigningKeys)
    BY <1>1 DEF ConfInv
<1>3. Made(generated) \subseteq Made(Len(SigningKeys))
    BY <1>2 DEF Made
<1> QED
    BY <1>1, <1>3, ActiveKey DEF ConfInv, KnownKeys, Never

\* The clock, and steps that leave configuration and tokens.
LEMMA TokensStay ==
    ASSUME ConfInv, TokenInv, UNCHANGED <<conf, generated, issued>>, clock' \in Int, clock <= clock'
    PROVE  TokenInv'
<1>1. UNCHANGED <<Active, Previous, KnownKeys>> /\ clock \in Int
    BY ActiveKey DEF KnownKeys, ConfInv
<1>2. ASSUME NEW t \in issued PROVE TokenRight(t)'
    <2>1. TokenRight(t) /\ t.cutoff \in Nat
        BY DEF TokenInv, TokenRight, BearerToken
    <2> QED
        BY <1>1, <2>1 DEF TokenRight
<1> QED
    BY <1>2 DEF TokenInv

\* The rotation: the tokens of the key that was active get the cutoff, and those
\* of the previous one end.
LEMMA RotateStep ==
    ASSUME AccessInv, NEW overlap \in Overlaps, RotateKey(overlap)
    PROVE  AccessInv'
<1> DEFINE new == SigningKeys[generated + 1]
           cut(t) == CASE t.key = Active -> clock + overlap
                       [] t.key = Previous -> Min({clock, t.cutoff})
                       [] OTHER -> t.cutoff
           moved(t) == [t EXCEPT !.cutoff = cut(t)]
<1>0. /\ ConfInv /\ TokenInv /\ RequestInv
      /\ overlap \in Nat /\ clock \in Nat /\ generated \in Nat
    BY ApiAccessAssumption DEF ApiAccessAssumption, AccessInv, ConfInv
<1>1. /\ generated < Len(SigningKeys) /\ generated' = generated + 1
      /\ conf' = [conf EXCEPT !.active = new, !.previous = Active, !.until = clock + overlap]
      /\ UNCHANGED <<clock, manager, session, request>>
      /\ issued' = {moved(t) : t \in issued}
    BY DEF RotateKey
<1>2. /\ new \notin KnownKeys /\ new # NoSigningKey /\ new \in KnownKeys'
      /\ KnownKeys \subseteq KnownKeys' /\ Len(SigningKeys) \in Nat
    BY <1>0, <1>1, LaterKey DEF KnownKeys
<1>3. /\ conf'.active = new /\ conf'.legacy = conf.legacy /\ conf'.previous = Active
      /\ conf'.until = clock + overlap
      /\ conf' = [active |-> new, legacy |-> conf.legacy, previous |-> Active,
                  until |-> clock + overlap]
    BY <1>0, <1>1 DEF ConfInv
<1>4. Active' = new /\ Previous' = Active /\ Active \in KnownKeys
    BY <1>0, <1>2, <1>3, ActiveKey, ActiveKnown
<1>5. ConfInv'
    <2>1. generated' \in Nat /\ generated' <= Len(SigningKeys) /\ clock + overlap \in Nat
        BY <1>0, <1>1, <1>2
    <2>2. manager # NoServer => manager.active \in KnownKeys
        BY <1>0 DEF ConfInv
    <2>3. conf.legacy \in KnownKeys /\ clock' \in 0 .. EndOfTime
        BY <1>0, <1>1 DEF ConfInv
    <2> HIDE DEF new
    <2> QED
        BY <1>1, <1>2, <1>3, <1>4, <2>1, <2>2, <2>3 DEF ConfInv
<1>6. ASSUME NEW t \in issued, NEW u, u = moved(t) PROVE TokenRight(u)'
    <2>1. TokenRight(t) /\ t.cutoff \in Nat /\ t \in BearerToken
        BY <1>0 DEF TokenInv, TokenRight, BearerToken
    <2>2. t.key \in KnownKeys /\ t.key # NoSigningKey
        BY <2>1 DEF TokenRight
    <2>3. Min({clock, t.cutoff}) \in Nat /\ Min({clock, t.cutoff}) <= clock
        BY <1>0, <2>1, Earlier
    <2>6. ~(t.key = Active /\ t.key = Previous)
        BY <1>0, <2>2, ActiveKey DEF ConfInv
    <2>4. CASE t.key = Active
        <3>1. cut(t) = clock + overlap /\ clock + overlap \in Nat
            BY <1>0, <2>4, <2>6
        <3>2. u = [t EXCEPT !.cutoff = clock + overlap]
            BY <1>6, <3>1
        <3>3. u.key = t.key /\ u.cutoff = clock + overlap /\ u \in BearerToken
            BY <2>1, <3>1, <3>2 DEF BearerToken
        <3> QED
            BY <1>2, <1>3, <1>4, <2>2, <2>4, <3>3 DEF TokenRight
    <2>5. CASE t.key # Active
        <3>1. cut(t) \in Nat /\ cut(t) <= clock
            BY <1>0, <2>1, <2>3, <2>5 DEF TokenRight
        <3>2. u.key = t.key /\ u.cutoff = cut(t) /\ u \in BearerToken
            BY <1>6, <2>1, <3>1 DEF BearerToken
        <3>3. u.cutoff <= clock
            BY <3>1, <3>2
        <3> QED
            BY <1>1, <1>2, <1>4, <2>2, <2>5, <3>2, <3>3 DEF TokenRight
    <2> QED
        BY <2>4, <2>5
<1>7. TokenInv'
    <2>1. IsFiniteSet(issued)
        BY <1>0 DEF TokenInv
    <2> HIDE DEF moved
    <2> DEFINE f == [t \in issued |-> moved(t)]
    <2>2. f \in Surjection(issued, issued')
        BY <1>1 DEF Surjection
    <2>3. IsFiniteSet(issued')
        BY <2>1, <2>2, FS_Surjection
    <2>4. ASSUME NEW u \in issued' PROVE TokenRight(u)'
        <3>1. PICK t \in issued : u = moved(t)
            BY <1>1, <2>4
        <3> QED
            BY <1>6, <3>1
    <2> QED
        BY <2>3, <2>4 DEF TokenInv
<1>8. RequestInv'
    <2>1. request.at # "none" => manager.active # Active'
        BY <1>0, <1>2, <1>4 DEF ConfInv, RequestInv
    <2> QED
        BY <1>0, <1>1, <2>1 DEF RequestInv
<1> QED
    BY <1>5, <1>7, <1>8 DEF AccessInv

LEMMA RemoveStep == AccessInv /\ RemovePrevious => AccessInv'
<1> SUFFICES ASSUME AccessInv, RemovePrevious PROVE AccessInv'
    OBVIOUS
<1>0. ConfInv /\ TokenInv /\ RequestInv /\ clock \in Int
    BY DEF AccessInv, ConfInv
<1>1. /\ clock >= conf.until /\ conf' = [conf EXCEPT !.previous = NoSigningKey]
      /\ UNCHANGED <<clock, manager, generated, issued, session, request>>
    BY DEF RemovePrevious
<1>2. /\ conf'.active = conf.active /\ conf'.legacy = conf.legacy
      /\ conf'.previous = NoSigningKey /\ conf'.until = conf.until
      /\ conf' = [active |-> conf.active, legacy |-> conf.legacy, previous |-> NoSigningKey,
                  until |-> conf.until]
    BY <1>0, <1>1 DEF ConfInv
<1>3. Active' = Active /\ Previous' = NoSigningKey /\ KnownKeys' = KnownKeys
    BY <1>1, <1>2, ActiveKey DEF KnownKeys
<1>4. ConfInv'
    BY <1>0, <1>1, <1>2, <1>3 DEF ConfInv, KnownKeys
<1>5. ASSUME NEW t \in issued PROVE TokenRight(t)'
    <2>1. TokenRight(t) /\ t.cutoff \in Nat
        BY <1>0 DEF TokenInv, TokenRight, BearerToken
    <2> QED
        BY <1>1, <1>2, <1>3, <2>1 DEF TokenRight
<1>6. TokenInv'
    BY <1>0, <1>1, <1>5 DEF TokenInv
<1>7. RequestInv'
    BY <1>0, <1>1, <1>3 DEF RequestInv
<1> QED
    BY <1>4, <1>6, <1>7 DEF AccessInv

LEMMA RestartStep == AccessInv /\ RestartServer => AccessInv'
<1> SUFFICES ASSUME AccessInv, RestartServer PROVE AccessInv'
    OBVIOUS
<1>0. ConfInv /\ TokenInv /\ RequestInv /\ clock \in Int
    BY DEF AccessInv, ConfInv
<1>1. /\ manager' = Loaded \/ manager' = NoServer
      /\ request' = NoRequest /\ UNCHANGED <<clock, conf, generated, issued, session>>
    BY DEF RestartServer
<1>2. UNCHANGED <<Active, KnownKeys>> /\ Active \in KnownKeys
    BY <1>0, <1>1, ActiveKey, ActiveKnown DEF KnownKeys
<1>3. manager' # NoServer => manager'.active \in KnownKeys
    BY <1>1, <1>2 DEF Loaded
<1>4. ConfInv'
    BY <1>0, <1>1, <1>2, <1>3 DEF ConfInv
<1>5. TokenInv'
    BY <1>0, <1>1, TokensStay
<1>6. RequestInv'
    BY <1>0, <1>1 DEF RequestInv, NoRequest
<1> QED
    BY <1>4, <1>5, <1>6 DEF AccessInv

\* A token that is issued is one of the active key.
LEMMA TokenStep ==
    ASSUME AccessInv, NEW value, NEW days \in Days, NEW long, TokenCommand(value, days, long)
    PROVE  AccessInv'
<1>0. ConfInv /\ TokenInv /\ RequestInv /\ clock \in Int /\ days \in Int
    BY ApiAccessAssumption DEF AccessInv, ConfInv, ApiAccessAssumption
<1>1. /\ Active # NoSigningKey /\ UNCHANGED <<clock, conf, manager, generated, session, request>>
      /\ \E scope \in ParseTokenScope(value) : IssueBearer(scope, days)
    BY DEF TokenCommand, NewManager
<1>2. ParseTokenScope(value) \subseteq {"ro", "rw"}
    BY DEF ParseTokenScope
<1>3. PICK scope \in {"ro", "rw"} : IssueBearer(scope, days)
    BY <1>1, <1>2
<1> DEFINE new == [key |-> Active, scope |-> scope, expires |-> clock + days, cutoff |-> Never]
<1>4. issued' = issued \cup {new}
    BY <1>3 DEF IssueBearer
<1>5. /\ Active \in KnownKeys /\ Never \in Nat
      /\ Active \in {LegacyKey} \cup Made(Len(SigningKeys))
    BY <1>0, <1>1, ActiveKnown
<1>6. UNCHANGED <<Active, Previous, KnownKeys>>
    BY <1>1, ActiveKey DEF KnownKeys
<1>7. new \in BearerToken /\ new.key = Active /\ new.cutoff = Never
    BY <1>0, <1>5 DEF BearerToken
<1> HIDE DEF new
<1>8. ASSUME NEW t \in issued' PROVE TokenRight(t)'
    <2>1. CASE t \in issued
        <3>1. TokenRight(t)
            BY <1>0, <2>1 DEF TokenInv
        <3> QED
            BY <1>1, <1>6, <3>1 DEF TokenRight, Never
    <2>2. CASE t = new
        BY <1>1, <1>5, <1>6, <1>7, <2>2 DEF TokenRight, Never
    <2> QED
        BY <1>4, <1>8, <2>1, <2>2
<1>9. TokenInv'
    BY <1>0, <1>4, <1>8, FS_AddElement DEF TokenInv
<1>10. ConfInv' /\ RequestInv'
    BY <1>0, <1>1, <1>4, <1>6 DEF ConfInv, RequestInv
<1> QED
    BY <1>9, <1>10 DEF AccessInv

LEMMA ArriveStep ==
    ASSUME AccessInv, NEW bearers \in SUBSET issued, NEW cookie \in BOOLEAN,
           NEW method \in {"GET", "POST"}, NEW page \in {"own", "foreign", "program"},
           NEW genuine \in BOOLEAN, Arrive(bearers, cookie, method, page, genuine)
    PROVE  AccessInv'
<1>0. ConfInv /\ TokenInv /\ RequestInv /\ clock \in Int
    BY DEF AccessInv, ConfInv
<1>1. /\ manager # NoServer /\ Cardinality(bearers) <= 1
      /\ UNCHANGED <<clock, conf, manager, generated, issued, session>>
    BY DEF Arrive
<1>2. PICK h \in Headers(page) :
        request' = [at |-> "authenticate", bearers |-> bearers, cookie |-> cookie,
                    method |-> method, page |-> page, headers |-> h, csrf |-> genuine]
    BY DEF Arrive
<1>3. /\ request'.at = "authenticate" /\ request'.bearers = bearers
      /\ request'.page = page /\ request'.headers = h
    BY <1>2
<1>4. bearers \in SUBSET BearerToken /\ IsFiniteSet(bearers)
    BY <1>0, FS_Subset DEF TokenInv, TokenRight
<1>5. \A x, y \in bearers : x = y
    BY <1>1, <1>4, AtMostOne
<1>6. h \in UNION {Headers(p) : p \in {"own", "foreign", "program"}}
    OBVIOUS
<1>7. request' \in RequestType
    BY <1>2, <1>4, <1>6 DEF RequestType
<1>8. RequestInv'
    BY <1>0, <1>1, <1>3, <1>5, <1>7 DEF RequestInv
<1>9. ConfInv' /\ TokenInv'
    BY <1>0, <1>1, TokensStay, ActiveKey DEF ConfInv, KnownKeys
<1> QED
    BY <1>8, <1>9 DEF AccessInv

\* The checks.  A request that is decided on goes to "handle" or "refused".
LEMMA Decided ==
    ASSUME NEW ok, Decide(ok), request \in RequestType
    PROVE  /\ request' = [request EXCEPT !.at = IF ok THEN "handle" ELSE "refused"]
           /\ request'.at = IF ok THEN "handle" ELSE "refused"
           /\ request'.at \in {"handle", "refused"} /\ (request'.at = "handle" <=> ok)
BY DEF Decide, RequestType

LEMMA RequireCases ==
    ASSUME AccessInv, Require
    PROVE  /\ request.at = "authenticate" /\ request \in RequestType
           /\ \/ /\ request' = [request EXCEPT !.at = "browser"]
                 /\ request.cookie /\ request.bearers = {}
                 /\ session.life = "live" /\ IsUnsafeMethod(request.method)
                 /\ ScopeAllows(session.scope, Requirement(request.method))
              \/ (request.cookie <=> request.bearers # {}) /\ Decide(FALSE)
              \/ /\ ~request.cookie
                 /\ \E t \in request.bearers :
                      Decide(ValidateBearer(t, Requirement(request.method)))
              \/ /\ request.cookie /\ request.bearers = {}
                 /\ Decide(/\ session.life = "live"
                           /\ ScopeAllows(session.scope, Requirement(request.method)))
                 /\ \/ ~IsUnsafeMethod(request.method)
                    \/ ~(/\ session.life = "live"
                         /\ ScopeAllows(session.scope, Requirement(request.method)))
<1>1. request.at = "authenticate" /\ AuthenticateRequest(Requirement(request.method))
    BY DEF Require
<1>2. request \in RequestType
    BY <1>1 DEF AccessInv, RequestInv, NoRequest
<1>3. request.cookie \in BOOLEAN
    BY <1>2 DEF RequestType
<1> DEFINE required == Requirement(request.method)
           allowed == session.life = "live" /\ ScopeAllows(session.scope, required)
<1>4. CASE request.bearers # {} /\ request.cookie
    <2>1. Decide(FALSE)
        BY <1>1, <1>4 DEF AuthenticateRequest
    <2> QED
        BY <1>1, <1>2, <1>4, <2>1
<1>5. CASE request.bearers = {} /\ ~request.cookie
    <2>1. Decide(FALSE)
        BY <1>1, <1>5 DEF AuthenticateRequest
    <2> QED
        BY <1>1, <1>2, <1>5, <2>1
<1>6. CASE request.bearers # {} /\ ~request.cookie
    <2>1. \A t \in request.bearers : Decide(ValidateBearer(t, required))
        BY <1>1, <1>6 DEF AuthenticateRequest
    <2> QED
        BY <1>1, <1>2, <1>6, <2>1
<1>7. CASE request.bearers = {} /\ request.cookie
    <2>1. IF allowed /\ IsUnsafeMethod(request.method)
          THEN request' = [request EXCEPT !.at = "browser"]
          ELSE Decide(allowed)
        BY <1>1, <1>7 DEF AuthenticateRequest
    <2> QED
        BY <1>1, <1>2, <1>7, <2>1
<1> QED
    BY <1>3, <1>4, <1>5, <1>6, <1>7

\* What the checks leave of a request.
LEMMA CheckStep ==
    ASSUME AccessInv, Require \/ CheckBrowser \/ CheckCSRF \/ Reply
    PROVE  AccessInv'
<1>0. ConfInv /\ TokenInv /\ RequestInv /\ clock \in Int
    BY DEF AccessInv, ConfInv
<1>1. UNCHANGED <<clock, conf, manager, generated, issued, session>>
    BY DEF Require, CheckBrowser, CheckCSRF, Reply
<1>2. ConfInv' /\ TokenInv' /\ Active' = Active
    BY <1>0, <1>1, TokensStay, ActiveKey DEF ConfInv, KnownKeys
<1> SUFFICES RequestInv'
    BY <1>2 DEF AccessInv
<1>3. ASSUME NEW at \in {"browser", "csrf", "handle", "refused"}, request \in RequestType,
             request' = [request EXCEPT !.at = at],
             at \in {"browser", "csrf"} =>
               /\ request.cookie /\ request.bearers = {} /\ IsUnsafeMethod(request.method)
               /\ ScopeAllows(session.scope, Requirement(request.method)),
             at = "csrf" => request.page = "own"
      PROVE  RequestInv'
    <2>1. /\ request' \in RequestType /\ request'.at = at
          /\ request'.bearers = request.bearers /\ request'.cookie = request.cookie
          /\ request'.method = request.method /\ request'.page = request.page
          /\ request'.headers = request.headers
        BY <1>3 DEF RequestType
    <2>2. request.at # "none"
        BY <1>3 DEF RequestType
    <2> QED
        BY <1>0, <1>1, <1>2, <1>3, <2>1, <2>2 DEF RequestInv
<1>4. ASSUME NEW ok, Decide(ok), request \in RequestType PROVE RequestInv'
    <2>1. CASE ok
        BY <1>3, <1>4, <2>1, Decided
    <2>2. CASE ~ok
        BY <1>3, <1>4, <2>2, Decided
    <2> QED
        BY <2>1, <2>2
<1>5. CASE Require
    BY <1>3, <1>4, <1>5, RequireCases
<1>6. CASE CheckBrowser
    <2>1. request.at = "browser" /\ request \in RequestType
        BY <1>0, <1>6 DEF CheckBrowser, RequestInv, NoRequest
    <2>2. CASE BrowserOrigin(request.headers) /\ session.life = "live"
        <3>1. request' = [request EXCEPT !.at = "csrf"]
            BY <1>6, <2>2 DEF CheckBrowser
        <3>2. request.page = "own"
            BY <1>0, <2>1, <2>2, OriginTold DEF RequestInv, RequestType
        <3> QED
            BY <1>0, <1>3, <2>1, <3>1, <3>2 DEF RequestInv
    <2>3. CASE ~(BrowserOrigin(request.headers) /\ session.life = "live")
        BY <1>4, <1>6, <2>1, <2>3 DEF CheckBrowser
    <2> QED
        BY <2>2, <2>3
<1>7. CASE CheckCSRF
    <2>1. request.at = "csrf" /\ request \in RequestType
        BY <1>0, <1>7 DEF CheckCSRF, RequestInv, NoRequest
    <2> QED
        BY <1>4, <1>7, <2>1 DEF CheckCSRF
<1>8. CASE Reply
    BY <1>0, <1>1, <1>8 DEF Reply, RequestInv, NoRequest
<1> QED
    BY <1>5, <1>6, <1>7, <1>8

LEMMA AccessStep == AccessInv /\ [AccessNext]_accessVars => AccessInv'
<1> SUFFICES ASSUME AccessInv, [AccessNext]_accessVars PROVE AccessInv'
    OBVIOUS
<1>0. ConfInv /\ TokenInv /\ RequestInv /\ clock \in Int
    BY DEF AccessInv, ConfInv
<1>1. CASE UNCHANGED accessVars
    BY <1>0, <1>1, TokensStay, ActiveKey
       DEF accessVars, AccessInv, ConfInv, RequestInv, KnownKeys
<1>2. CASE AccessTick
    <2>1. /\ clock < EndOfTime /\ clock' = clock + 1
          /\ UNCHANGED <<conf, manager, generated, issued, session, request>>
        BY <1>2 DEF AccessTick
    <2>2. EndOfTime \in Nat /\ clock' \in 0 .. EndOfTime /\ clock <= clock'
        BY <1>0, <2>1, ActiveKnown DEF ConfInv
    <2>3. ConfInv' /\ RequestInv'
        BY <1>0, <2>1, <2>2, ActiveKey DEF ConfInv, RequestInv, KnownKeys
    <2>4. TokenInv'
        BY <1>0, <2>1, <2>2, TokensStay
    <2> QED
        BY <2>3, <2>4 DEF AccessInv
<1>3. ASSUME NEW how \in {"expired", "gone"}, EndSession(how) PROVE AccessInv'
    <2>1. /\ session' = [session EXCEPT !.life = how]
          /\ UNCHANGED <<clock, conf, manager, generated, issued, request>>
        BY <1>3 DEF EndSession
    <2>2. /\ session' \in [scope : {"ro", "rw"}, life : {"live", "expired", "gone"}]
          /\ session'.scope = session.scope
        BY <1>0, <2>1 DEF RequestInv
    <2>3. ConfInv' /\ TokenInv'
        BY <1>0, <2>1, TokensStay, ActiveKey DEF ConfInv, KnownKeys
    <2>4. RequestInv'
        BY <1>0, <2>1, <2>2, ActiveKey DEF RequestInv
    <2> QED
        BY <2>3, <2>4 DEF AccessInv
<1>4. CASE AccessNext
    BY <1>2, <1>3, <1>4, RotateStep, RemoveStep, RestartStep, TokenStep, ArriveStep, CheckStep
       DEF AccessNext
<1> QED
    BY <1>1, <1>4

\* The tokens that are let in are those that the operator wants to live.
LEMMA BearerRight ==
    ASSUME AccessInv, NEW t \in issued, manager = Loaded, NEW required
    PROVE  ValidateBearer(t, required) <=>
             /\ ScopeAllows(t.scope, required)
             /\ clock < t.expires + ClockSkew
             /\ clock < t.cutoff
<1>1. manager.active = Active /\ manager.previous = Previous /\ manager.until = conf.until
    BY DEF Loaded
<1>2. TokenRight(t) /\ t.cutoff \in Nat /\ ConfInv /\ clock \in Int /\ conf.until \in Nat
    BY DEF AccessInv, TokenInv, TokenRight, BearerToken, ConfInv
<1>3. clock < Never /\ (t.key = Active => t.key # Previous)
    BY <1>2, ActiveKnown, ActiveKey DEF ConfInv, Never, TokenRight
<1>4. (/\ t.key \in {Active, Previous}
       /\ t.key = Previous => clock < conf.until) <=> clock < t.cutoff
    BY <1>2, <1>3 DEF TokenRight
<1> QED
    BY <1>1, <1>4 DEF ValidateBearer

LEMMA DecisionRight ==
    ASSUME AccessInv, AccessNext, manager = Loaded,
           request.at \in {"authenticate", "browser", "csrf"},
           request'.at \in {"handle", "refused"}
    PROVE  request'.at = "handle" <=> Deserves(request)
<1>0. /\ RequestInv /\ request \in RequestType /\ manager.active = Active
      /\ request.cookie \in BOOLEAN /\ request.csrf \in BOOLEAN
      /\ request.bearers \subseteq issued /\ \A s, t \in request.bearers : s = t
    BY DEF AccessInv, RequestInv, NoRequest, RequestType, Loaded
<1>1. Require \/ CheckBrowser \/ CheckCSRF
    <2>1. ASSUME request' = request PROVE FALSE
        BY <2>1
    <2>2. ASSUME request' = NoRequest PROVE FALSE
        BY <2>2 DEF NoRequest
    <2>3. ASSUME request = NoRequest PROVE FALSE
        BY <2>3 DEF NoRequest
    <2>4. ~Reply
        BY <2>2 DEF Reply
    <2> QED
        BY <2>1, <2>2, <2>3, <2>4
           DEF AccessNext, AccessTick, EndSession, RotateKey, RemovePrevious, RestartServer,
               TokenCommand, Arrive
<1>2. CASE Require
    <2>1. request.at = "authenticate"
        BY <1>2 DEF Require
    <2>2. CASE request' = [request EXCEPT !.at = "browser"]
        BY <1>0, <2>2 DEF RequestType
    <2>3. CASE (request.cookie <=> request.bearers # {}) /\ Decide(FALSE)
        BY <1>0, <2>3, Decided DEF Deserves
    <2>4. CASE /\ ~request.cookie
               /\ \E t \in request.bearers :
                    Decide(ValidateBearer(t, Requirement(request.method)))
        <3>1. PICK t \in request.bearers : Decide(ValidateBearer(t, Requirement(request.method)))
            BY <2>4
        <3>2. request'.at = "handle" <=> ValidateBearer(t, Requirement(request.method))
            BY <1>0, <3>1, Decided
        <3>3. t \in issued /\ \A s \in request.bearers : s = t
            BY <1>0
        <3>4. Deserves(request) <=>
                /\ ScopeAllows(t.scope, Requirement(request.method))
                /\ clock < t.expires + ClockSkew
                /\ clock < t.cutoff
            BY <2>4, <3>3 DEF Deserves
        <3> QED
            BY <3>2, <3>3, <3>4, BearerRight
    <2>5. CASE /\ request.cookie /\ request.bearers = {}
               /\ Decide(/\ session.life = "live"
                         /\ ScopeAllows(session.scope, Requirement(request.method)))
               /\ \/ ~IsUnsafeMethod(request.method)
                  \/ ~(/\ session.life = "live"
                       /\ ScopeAllows(session.scope, Requirement(request.method)))
        <3> DEFINE allowed == /\ session.life = "live"
                              /\ ScopeAllows(session.scope, Requirement(request.method))
        <3>1. request'.at = "handle" <=> allowed
            BY <1>0, <2>5, Decided
        <3> QED
            BY <2>1, <2>5, <3>1 DEF Deserves
    <2> QED
        BY <1>2, <2>2, <2>3, <2>4, <2>5, RequireCases
<1>3. CASE CheckBrowser
    <2>1. request.at = "browser"
        BY <1>3 DEF CheckBrowser
    <2>2. ~(BrowserOrigin(request.headers) /\ session.life = "live") /\ Decide(FALSE)
        BY <1>0, <1>3 DEF CheckBrowser, RequestType
    <2>3. BrowserOrigin(request.headers) <=> request.page = "own"
        BY <1>0, <2>1, OriginTold DEF RequestInv, RequestType
    <2>4. request.cookie /\ IsUnsafeMethod(request.method)
        BY <1>0, <2>1 DEF RequestInv
    <2>5. request'.at # "handle"
        BY <1>0, <2>2, Decided
    <2> QED
        BY <2>1, <2>2, <2>3, <2>4, <2>5 DEF Deserves
<1>4. CASE CheckCSRF
    <2>1. request.at = "csrf" /\ Decide(request.csrf /\ session.life # "gone")
        BY <1>4 DEF CheckCSRF
    <2>2. /\ request.cookie /\ request.bearers = {} /\ IsUnsafeMethod(request.method)
          /\ ScopeAllows(session.scope, Requirement(request.method)) /\ request.page = "own"
          /\ session.life \in {"live", "expired", "gone"}
        BY <1>0, <2>1 DEF RequestInv
    <2>3. request'.at = "handle" <=> request.csrf /\ session.life # "gone"
        BY <1>0, <2>1, Decided
    <2> QED
        BY <2>1, <2>2, <2>3 DEF Deserves
<1> QED
    BY <1>1, <1>2, <1>3, <1>4

\* Once the server has been started with the configuration as it is, a request is
\* let in exactly when it deserves it at the moment of the decision: through any
\* number of rotations and restarts, and although session, scope and CSRF token
\* are read in three queries.
THEOREM DecisionsAreRight == AccessSpec => DecisionsRight
<1>1. AccessInv /\ [AccessNext]_accessVars
      => [/\ request.at \in {"authenticate", "browser", "csrf"}
          /\ request'.at \in {"handle", "refused"}
          /\ manager = Loaded
          => (request'.at = "handle" <=> Deserves(request))]_accessVars
    BY DecisionRight
<1> QED
    BY <1>1, AccessInitial, AccessStep, PTL DEF AccessSpec, DecisionsRight
=============================================================================
