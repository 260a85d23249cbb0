-------------------------- MODULE AccountController --------------------------
(***************************************************************************)
(* The ACME account controller (pkg/controller/issuer/acme).  An issuer is *)
(* a labelled ConfigMap; the controller registers an ACME account for it,  *)
(* keeps the account's key in a Secret, and records the account in the     *)
(* ConfigMap.  ConfigMaps and Secrets are those of one namespace.          *)
(*                                                                         *)
(* Both are read from informers that trail the API server independently    *)
(* and, unlike the Route informer, never resync: a wake-up that is missed  *)
(* is missed for good.  Each call of a sync is a step of its own.          *)
(***************************************************************************)
EXTENDS Integers, Sequences, FiniteSets

CONSTANTS
    Issuers,     \* names of the ConfigMaps, and default names of the Secrets
    NoName,      \* an empty secretName
    NoPrio,      \* no priority annotation, or one that is no number
    Prios,       \* values of the priority annotation
    Contacts,    \* contact lists a user may write
    Manifests,   \* [Issuers -> ConfigMaps there may be before the controller runs]
    MaxAccounts, \* bound: accounts the ACME server registers before it rate-limits
    MaxLag,      \* bound: versions of one object an informer may trail behind
    MaxEdits,    \* bound: changes by users
    MaxFaults    \* bound: failed calls and restarts

ASSUME NamesAssumption  == NoName \notin Issuers
ASSUME FiniteAssumption == IsFiniteSet(Issuers)
ASSUME BoundsAssumption == /\ MaxAccounts \in Nat /\ MaxLag \in Nat \ {0}
                           /\ MaxEdits \in Nat /\ MaxFaults \in Nat
                           /\ Prios \subseteq Int

VARIABLES
    cms,        \* API server: the ConfigMaps
    secrets,    \* API server: the Secrets
    cwatch,     \* versions of each ConfigMap that the informer has not delivered
    swatch,     \* versions of each Secret that the informer has not delivered
    ccache,     \* the ConfigMaps in the indexer
    scache,     \* the Secrets in the indexer
    queue,      \* keys in ac.queue
    retry,      \* keys with a pending AddRateLimited
    job,        \* the next call of the sync of a key, with what it has read
    accounts,   \* ACME server: contacts of the accounts registered, in order
    limited,    \* ACME server: it has refused to register for its rate limit
    stored,     \* history: account keys that were ever stored in a Secret
    edits,
    faults

apiVars   == <<cms, secrets, cwatch, swatch, stored>>
cacheVars == <<ccache, scache>>
caVars    == <<accounts, limited>>
vars == <<cms, secrets, cwatch, swatch, ccache, scache, queue, retry, job,
          accounts, limited, stored, edits, faults>>

-----------------------------------------------------------------------------
(* Data. *)

\* An account is known by the number of its key; 0 is an empty URI, and a Secret
\* that holds no usable key.
AccountIds == 0 .. MaxAccounts

\* A ConfigMap with its CertIssuer.  kind is "bad" when the data is missing, no
\* YAML, or has no acmeCertIssuer.
ConfigMap == [exists : BOOLEAN, labelled : BOOLEAN, kind : {"acme", "other", "bad"},
              prio : Prios \cup {NoPrio}, created : Nat,
              secretName : Issuers \cup {NoName}, contacts : Contacts, uri : AccountIds]

Secret == [exists : BOOLEAN, key : AccountIds]
NoSecret == [exists |-> FALSE, key |-> 0]

\* cm is the version that the sync read; for "update" it carries the changes.
Idle == [todo |-> "none"]
Job  == {Idle} \cup [todo : {"register", "create", "getReg", "update"},
                     cm : ConfigMap, base : ConfigMap, key : AccountIds]

TypeOK ==
    /\ cms \in [Issuers -> ConfigMap] /\ secrets \in [Issuers -> Secret]
    /\ cwatch \in [Issuers -> Seq(ConfigMap)] /\ swatch \in [Issuers -> Seq(Secret)]
    /\ ccache \in [Issuers -> ConfigMap] /\ scache \in [Issuers -> Secret]
    /\ queue \subseteq Issuers /\ retry \subseteq Issuers
    /\ job \in [Issuers -> Job]
    /\ accounts \in Seq(Contacts) /\ Len(accounts) <= MaxAccounts
    /\ limited \in BOOLEAN
    /\ stored \subseteq 1 .. Len(accounts)
    /\ edits \in 0 .. MaxEdits /\ faults \in 0 .. MaxFaults

\* Users write no status; secretName may be left to its default.  Creation times are
\* ordinals, and those of the first ConfigMaps are the smallest.
ASSUME ManifestsAssumption ==
    \A i \in Issuers : /\ Manifests[i] \subseteq ConfigMap
                       /\ \A c \in Manifests[i] : c.uri = 0 /\ c.created \in {0, 1}

-----------------------------------------------------------------------------
(* Shared steps. *)

WriteConfigMap(i, v) ==
    /\ Len(cwatch[i]) < MaxLag
    /\ cms' = [cms EXCEPT ![i] = v]
    /\ cwatch' = [cwatch EXCEPT ![i] = Append(@, v)]
    /\ UNCHANGED <<secrets, swatch, stored>>

WriteSecret(s, v) ==
    /\ Len(swatch[s]) < MaxLag
    /\ secrets' = [secrets EXCEPT ![s] = v]
    /\ swatch' = [swatch EXCEPT ![s] = Append(@, v)]
    /\ stored' = stored \cup ({v.key} \ {0})
    /\ UNCHANGED <<cms, cwatch>>

Fault   == faults < MaxFaults /\ faults' = faults + 1
NoFault == UNCHANGED faults

\* processNextItem after sync returned nil (Forget) and after an error.
ReturnNil(i) == job' = [job EXCEPT ![i] = Idle] /\ UNCHANGED retry
ReturnErr(i) == job' = [job EXCEPT ![i] = Idle] /\ retry' = retry \cup {i}

\* The sync of key i goes on to another call.
Goto(i, todo, base, cm, key) ==
    /\ job' = [job EXCEPT ![i] = [todo |-> todo, base |-> base, cm |-> cm, key |-> key]]
    /\ UNCHANGED retry

-----------------------------------------------------------------------------
(* sync. *)

\* secretName defaults to the name of the ConfigMap.
Named(i, c) == [c EXCEPT !.secretName = IF @ = NoName THEN i ELSE @]

\* The part of sync that reads only the caches.  The hash of the contacts, a
\* [64]byte, is never DeepEqual to the []byte of the stored one, so the branch
\* with UpdateReg is never taken and a recorded account is left alone.
StartSync(i) ==
    LET c == ccache[i]
        n == Named(i, c)
        s == scache[n.secretName]
    IN
    /\ i \in queue /\ job[i] = Idle
    /\ queue' = queue \ {i}
    /\ \/ (~ c.exists \/ c.kind = "other") /\ ReturnNil(i)
       \/ c.exists /\ c.kind = "bad" /\ ReturnErr(i)
       \/ /\ c.exists /\ c.kind = "acme"
          /\ \/ ~ s.exists /\ Goto(i, "register", c, n, 0)
             \/ s.exists /\ s.key = 0 /\ ReturnErr(i)
             \/ s.exists /\ s.key # 0 /\ c.uri = 0 /\ Goto(i, "getReg", c, n, s.key)
             \/ /\ s.exists /\ s.key # 0 /\ c.uri # 0
                /\ IF n = c THEN ReturnNil(i) ELSE Goto(i, "update", c, n, s.key)
    /\ UNCHANGED <<apiVars, cacheVars, caVars, edits, faults>>

\* The ACME server registers no account for the key, or does not say so.
RegisterIgnored(i) == Goto(i, "create", job[i].base, job[i].cm, Len(accounts) + 1)
RegisterFails(i) == ReturnErr(i)

\* The Secret is missing: Register a fresh key with the contacts of the issuer.
Register(i) ==
    LET j     == job[i]
        grant == /\ Len(accounts) < MaxAccounts
                 /\ accounts' = Append(accounts, j.cm.contacts)
                 /\ UNCHANGED limited
    IN
    /\ j.todo = "register"
    /\ \/ NoFault /\ grant /\ Goto(i, "create", j.base, j.cm, Len(accounts) + 1)
       \/ Fault /\ grant /\ RegisterFails(i)
       \/ Fault /\ UNCHANGED caVars /\ RegisterFails(i)
       \/ /\ NoFault /\ Len(accounts) = MaxAccounts
          /\ limited' = TRUE /\ UNCHANGED accounts /\ RegisterFails(i)
    /\ UNCHANGED <<apiVars, cacheVars, queue, edits>>

\* Create the Secret, which fails when the name is in use.  The outer err still
\* holds the NotFound of the lister, so that sync fails in either case.
EndCreateNil(i) == ReturnNil(i)
EndCreate(i) == ReturnErr(i)

CreateSecret(i) ==
    LET j == job[i] IN
    /\ j.todo = "create"
    /\ \/ /\ ~ secrets[j.cm.secretName].exists /\ NoFault
          /\ WriteSecret(j.cm.secretName, [exists |-> TRUE, key |-> j.key])
          /\ EndCreate(i)
       \/ secrets[j.cm.secretName].exists /\ NoFault /\ UNCHANGED apiVars /\ ReturnErr(i)
       \/ Fault /\ UNCHANGED apiVars /\ ReturnErr(i)
    /\ UNCHANGED <<cacheVars, queue, caVars, edits>>

\* The account that the ACME server has for a key: URI and contacts as the server
\* has them go into the ConfigMap.
RecordNewest(c, key) == [c EXCEPT !.uri = Len(accounts), !.contacts = accounts[key]]
Record(c, key) == [c EXCEPT !.uri = key, !.contacts = accounts[key]]

\* GetReg.
GetReg(i) ==
    LET j == job[i] IN
    /\ j.todo = "getReg"
    /\ \/ NoFault /\ Goto(i, "update", j.base, Record(j.cm, j.key), j.key)
       \/ Fault /\ ReturnErr(i)
    /\ UNCHANGED <<apiVars, cacheVars, queue, caVars, edits>>

\* Update of the ConfigMap, which conflicts when it is not the version read.
Accepts(i, j) == cms[i].exists /\ cms[i] = j.base

UpdateConfigMap(i) ==
    LET j == job[i] IN
    /\ j.todo = "update"
    /\ \/ NoFault /\ Accepts(i, j) /\ WriteConfigMap(i, j.cm) /\ ReturnNil(i)
       \/ NoFault /\ ~ Accepts(i, j) /\ UNCHANGED apiVars /\ ReturnErr(i)
       \/ Fault /\ Accepts(i, j) /\ WriteConfigMap(i, j.cm) /\ ReturnErr(i)
       \/ Fault /\ UNCHANGED apiVars /\ ReturnErr(i)
    /\ UNCHANGED <<cacheVars, queue, caVars, edits>>

-----------------------------------------------------------------------------
(* Informers and queue. *)

\* addConfigMap, updateConfigMap, deleteConfigMap; a deletion is judged by the
\* object known before.
DeliverConfigMap(i) ==
    LET v   == Head(cwatch[i])
        obj == IF v.exists THEN v ELSE ccache[i]
    IN
    /\ cwatch[i] # <<>>
    /\ ccache' = [ccache EXCEPT ![i] = v]
    /\ cwatch' = [cwatch EXCEPT ![i] = Tail(@)]
    /\ queue' = IF obj.labelled THEN queue \cup {i} ELSE queue
    /\ UNCHANGED <<cms, secrets, swatch, stored, scache, retry, job, caVars, edits, faults>>

\* deleteSecret: the issuers in the cache that name the Secret; a name left to its
\* default does not count.
UsersOfNone(s) == {}
UsersOf(s) == {i \in Issuers : /\ ccache[i].exists /\ ccache[i].labelled
                               /\ ccache[i].kind = "acme" /\ ccache[i].secretName = s}

\* There are no handlers for added and updated Secrets.
DeliverSecret(s) ==
    LET v == Head(swatch[s]) IN
    /\ swatch[s] # <<>>
    /\ scache' = [scache EXCEPT ![s] = v]
    /\ swatch' = [swatch EXCEPT ![s] = Tail(@)]
    /\ queue' = IF v.exists THEN queue ELSE queue \cup UsersOf(s)
    /\ UNCHANGED <<cms, secrets, cwatch, stored, ccache, retry, job, caVars, edits, faults>>

RetryFires(i) ==
    /\ i \in retry
    /\ retry' = retry \ {i} /\ queue' = queue \cup {i}
    /\ UNCHANGED <<apiVars, cacheVars, job, caVars, edits, faults>>

\* The process dies; a new one lists the objects and enqueues the labelled ones.
Crash ==
    /\ Fault
    /\ ccache' = cms /\ scache' = secrets
    /\ cwatch' = [i \in Issuers |-> <<>>] /\ swatch' = [s \in Issuers |-> <<>>]
    /\ queue' = {i \in Issuers : cms[i].exists /\ cms[i].labelled}
    /\ retry' = {} /\ job' = [i \in Issuers |-> Idle]
    /\ UNCHANGED <<cms, secrets, stored, caVars, edits>>

-----------------------------------------------------------------------------
(* Users. *)

UserStep == /\ edits < MaxEdits /\ edits' = edits + 1
            /\ UNCHANGED <<cacheVars, queue, retry, job, caVars, faults>>

\* A manifest is applied: the status in the data is lost.  What it creates is newer
\* than every ConfigMap there is or was.
ApplyIssuer(i) ==
    /\ UserStep
    /\ \E s \in Issuers \cup {NoName} :
          WriteConfigMap(i, [cms[i] EXCEPT !.exists = TRUE, !.labelled = TRUE, !.kind = "acme",
                                !.created = IF cms[i].exists THEN @ ELSE edits + 2,
                                !.secretName = s, !.uri = 0])

EditContacts(i) ==
    /\ UserStep /\ cms[i].exists /\ cms[i].kind = "acme"
    /\ \E con \in Contacts \ {cms[i].contacts} :
          WriteConfigMap(i, [cms[i] EXCEPT !.contacts = con])

EditKind(i) ==
    /\ UserStep /\ cms[i].exists
    /\ \E k \in {"acme", "other", "bad"} \ {cms[i].kind} :
          WriteConfigMap(i, [cms[i] EXCEPT !.kind = k])

EditPrio(i) ==
    /\ UserStep /\ cms[i].exists
    /\ \E p \in (Prios \cup {NoPrio}) \ {cms[i].prio} :
          WriteConfigMap(i, [cms[i] EXCEPT !.prio = p])

ToggleLabel(i) ==
    /\ UserStep /\ cms[i].exists
    /\ WriteConfigMap(i, [cms[i] EXCEPT !.labelled = ~ @])

DeleteIssuer(i) ==
    /\ UserStep /\ cms[i].exists
    /\ WriteConfigMap(i, [cms[i] EXCEPT !.exists = FALSE])

DeleteSecret(s) ==
    /\ UserStep /\ secrets[s].exists
    /\ WriteSecret(s, NoSecret)

\* A Secret of the user's own, without a key that the controller can use.
ForeignSecret(s) ==
    /\ UserStep
    /\ WriteSecret(s, [exists |-> TRUE, key |-> 0])

-----------------------------------------------------------------------------
(* Specification. *)

Init ==
    /\ cms \in [Issuers -> UNION {Manifests[i] : i \in Issuers}]
    /\ \A i \in Issuers : cms[i] \in Manifests[i]
    /\ secrets = [s \in Issuers |-> NoSecret]
    /\ cwatch = [i \in Issuers |-> <<>>] /\ swatch = [s \in Issuers |-> <<>>]
    /\ ccache = cms /\ scache = secrets
    /\ queue = {i \in Issuers : cms[i].exists /\ cms[i].labelled} /\ retry = {}
    /\ job = [i \in Issuers |-> Idle]
    /\ accounts = <<>> /\ limited = FALSE /\ stored = {}
    /\ edits = 0 /\ faults = 0

SyncStep(i) == \/ StartSync(i) \/ Register(i) \/ CreateSecret(i) \/ GetReg(i)
               \/ UpdateConfigMap(i)

EditStep(i) == \/ ApplyIssuer(i) \/ EditContacts(i) \/ EditKind(i) \/ EditPrio(i)
               \/ ToggleLabel(i) \/ DeleteIssuer(i)
               \/ DeleteSecret(i) \/ ForeignSecret(i)

Next == \/ \E i \in Issuers : \/ SyncStep(i) \/ DeliverConfigMap(i) \/ DeliverSecret(i)
                              \/ RetryFires(i) \/ EditStep(i)
        \/ Crash

Spec == Init /\ [][Next]_vars

\* Workers, informers and the delaying queue run as long as the process does.
\* Nothing is assumed of users and of faults.
Fairness == \A i \in Issuers : /\ WF_vars(SyncStep(i)) /\ WF_vars(DeliverConfigMap(i))
                               /\ WF_vars(DeliverSecret(i)) /\ WF_vars(RetryFires(i))

FairSpec == Spec /\ Fairness

-----------------------------------------------------------------------------
(* Properties. *)

\* Nothing the informers have to tell about issuer i and its Secret.
Told(i) == /\ cwatch[i] = <<>>
           /\ swatch[Named(i, ccache[i]).secretName] = <<>>

\* The informers never resync and added Secrets have no handler, so sync must not
\* leave a key behind with work undone: an ACME issuer whose key is neither queued
\* nor delayed nor being synced has its account recorded, names its Secret, and
\* the Secret is there.
SettledOrScheduled ==
    \A i \in Issuers :
        LET c == ccache[i] IN
        c.exists /\ c.labelled /\ c.kind = "acme" /\ Told(i)
            => \/ i \in queue \cup retry \/ job[i] # Idle
               \/ c.uri # 0 /\ c.secretName # NoName /\ scache[c.secretName].exists

\* Registering an account and storing its key are two calls, and the second may
\* be refused or never made.  A ConfigMap still never records an account whose key
\* was not stored, whoever stored it first.
RecordedAccountWasStored == \A i \in Issuers : cms[i].uri \in stored \cup {0}

\* "Update the acme account to reflect user changes": in the end the ACME server
\* has the contacts that the issuer asks for.
ContactsFollowUser ==
    <>[](\A i \in Issuers :
            cms[i].exists /\ cms[i].labelled /\ cms[i].kind = "acme" /\ cms[i].uri # 0
                => accounts[cms[i].uri] = cms[i].contacts)
=============================================================================
