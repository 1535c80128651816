------------------------------ MODULE MCAccess ------------------------------
(* Instances of ApiAccess and Deployment for model checking.  Both are about *)
(* keys and tokens, the one with rotations, lifetimes and sessions, and the  *)
(* other with files that belong together or do not.  One moves in each       *)
(* behaviour, and the variables of the other keep one initial value.         *)
EXTENDS ApiAccess, Deployment

CONSTANTS key1, key2

VARIABLE topic

TwoKeys == <<key1, key2>>

\* Bound: a run of tdns config has one flag at most that is not the default.
MostlyDefault(f) == f.listenapi = DefaultFlags.listenapi \/ f.hosts = DefaultFlags.hosts

TopicInit ==
    /\ AccessInit /\ DeployInit
    /\ \/ topic = "access" /\ environment = Nothing
       \/ topic = "deployment" /\ session.scope = "rw" /\ conf.legacy = NoSigningKey

TopicNext ==
    /\ UNCHANGED topic
    /\ \/ topic = "access" /\ AccessNext /\ UNCHANGED deployVars
       \/ topic = "deployment" /\ DeployNext /\ UNCHANGED accessVars
          /\ \A run \in 1..MaxRuns : MostlyDefault(flags'[run])

TopicSpec == TopicInit /\ [][TopicNext]_<<topic, accessVars, deployVars>>
=============================================================================
