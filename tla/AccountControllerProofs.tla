----------------------- MODULE AccountControllerProofs -----------------------
(***************************************************************************)
(* Proofs about AccountController, for every set of issuers, every lag of  *)
(* the informers and every number of edits and faults.                     *)
(***************************************************************************)
EXTENDS IssuerSelection, Induction, FiniteSetTheorems, SequenceTheorems

-----------------------------------------------------------------------------
(* The inductive invariant.  A URI reaches a ConfigMap from the key of a    *)
(* cached Secret, over a sync that may be delayed and a ConfigMap that may  *)
(* be stale; so every version of every object, wherever it is, has to name  *)
(* only accounts whose key was stored.                                      *)

KeptIds == stored \cup {0}

KeptConfigMap == {c \in ConfigMap : c.uri \in KeptIds}
KeptSecret    == {v \in Secret : v.key \in KeptIds}

\* What a sync carries from one call to the next.
KeptJob == {Idle} \cup
    {j \in [todo : {"register", "create", "getReg", "update"},
            cm : ConfigMap, base : ConfigMap, key : AccountIds] :
        /\ j.cm.uri \in KeptIds /\ j.cm.secretName \in Issuers
        /\ j.todo \in {"getReg", "update"} => j.key \in KeptIds
        /\ j.todo = "getReg" => j.key # 0
        /\ j.todo = "create" => j.key \in 1 .. Len(accounts)}

ApiOK   == /\ cms \in [Issuers -> KeptConfigMap] /\ secrets \in [Issuers -> KeptSecret]
           /\ cwatch \in [Issuers -> Seq(KeptConfigMap)] /\ swatch \in [Issuers -> Seq(KeptSecret)]
CacheOK == ccache \in [Issuers -> KeptConfigMap] /\ scache \in [Issuers -> KeptSecret]
JobOK   == job \in [Issuers -> KeptJob]
CaOK    == /\ accounts \in Seq(Contacts) /\ Len(accounts) <= MaxAccounts
           /\ stored \subseteq 1 .. Len(accounts)
QueueOK == queue \subseteq Issuers /\ retry \subseteq Issuers
LimitOK == limited \in BOOLEAN
CountOK == edits \in 0 .. MaxEdits /\ faults \in 0 .. MaxFaults

IndInv == ApiOK /\ CacheOK /\ JobOK /\ CaOK /\ LimitOK /\ QueueOK /\ CountOK

-----------------------------------------------------------------------------

\* The invariant has the types as a part.
LEMMA InvType == IndInv => TypeOK
<1> SUFFICES ASSUME IndInv PROVE TypeOK
  OBVIOUS
<1>1. KeptConfigMap \subseteq ConfigMap /\ KeptSecret \subseteq Secret /\ KeptJob \subseteq Job
  BY DEF KeptConfigMap, KeptSecret, KeptJob, Job
<1>2. /\ cms \in [Issuers -> ConfigMap] /\ secrets \in [Issuers -> Secret]
      /\ cwatch \in [Issuers -> Seq(ConfigMap)] /\ swatch \in [Issuers -> Seq(Secret)]
  <2>1. \A s \in Seq(KeptConfigMap) : s \in Seq(ConfigMap)
    BY <1>1
  <2>2. \A s \in Seq(KeptSecret) : s \in Seq(Secret)
    BY <1>1
  <2> QED
    BY <1>1, <2>1, <2>2 DEF IndInv, ApiOK
<1>3. ccache \in [Issuers -> ConfigMap] /\ scache \in [Issuers -> Secret] /\ job \in [Issuers -> Job]
  BY <1>1 DEF IndInv, CacheOK, JobOK
<1> QED
  BY <1>2, <1>3 DEF IndInv, TypeOK, CaOK, LimitOK, QueueOK, CountOK

\* Nothing is recorded, stored or under way in the beginning.
LEMMA InitInv == Init => IndInv
<1> SUFFICES ASSUME Init PROVE IndInv
  OBVIOUS
<1>1. \A i \in Issuers : cms[i] \in ConfigMap /\ cms[i].uri = 0
  BY ManifestsAssumption DEF Init
<1>2. cms \in [Issuers -> KeptConfigMap]
  BY <1>1 DEF Init, KeptConfigMap, KeptIds
<1>3. NoSecret \in KeptSecret
  BY BoundsAssumption DEF NoSecret, KeptSecret, KeptIds, Secret, AccountIds
<1>4. ApiOK /\ CacheOK
  <2>1. \A S : <<>> \in Seq(S)
    OBVIOUS
  <2> QED
    BY <1>2, <1>3, <2>1 DEF Init, ApiOK, CacheOK
<1>5. JobOK
  BY DEF Init, JobOK, KeptJob
<1>6. QueueOK /\ CountOK
  BY BoundsAssumption DEF Init, QueueOK, CountOK
<1>7. LimitOK
  BY DEF Init, LimitOK
<1>8. CaOK
  <2>1. accounts = <<>> /\ stored = {}
    BY DEF Init
  <2>2. accounts \in Seq(Contacts) /\ Len(accounts) = 0
    BY <2>1
  <2> QED
    BY <2>1, <2>2, BoundsAssumption DEF CaOK
<1> QED
  BY <1>4, <1>5, <1>6, <1>7, <1>8 DEF IndInv

\* An account once stored stays stored, and accounts are only added.
LEMMA KeptGrows ==
    ASSUME CaOK, stored \subseteq stored', Len(accounts) <= Len(accounts)', Len(accounts)' \in Nat
    PROVE  /\ KeptConfigMap \subseteq KeptConfigMap' /\ KeptSecret \subseteq KeptSecret'
           /\ KeptJob \subseteq KeptJob'
           /\ Seq(KeptConfigMap) \subseteq Seq(KeptConfigMap')
           /\ Seq(KeptSecret) \subseteq Seq(KeptSecret')
<1>1. KeptConfigMap \subseteq KeptConfigMap' /\ KeptSecret \subseteq KeptSecret'
  BY DEF KeptConfigMap, KeptSecret, KeptIds
<1>2. Len(accounts) \in Nat
  BY DEF CaOK
<1>3. KeptJob \subseteq KeptJob'
  <2> SUFFICES ASSUME NEW j \in KeptJob, j # Idle PROVE j \in KeptJob'
    BY DEF KeptJob
  <2>1. j.key \in 1 .. Len(accounts) => j.key \in 1 .. Len(accounts)'
    BY <1>2
  <2> QED
    BY <2>1 DEF KeptJob, KeptIds
<1>4. \A S, T : S \subseteq T => Seq(S) \subseteq Seq(T)
  OBVIOUS
<1> QED
  BY <1>1, <1>3, <1>4

\* The parts of the invariant that a step does not touch survive what it adds.
LEMMA Untouched ==
    ASSUME IndInv, stored \subseteq stored', Len(accounts) <= Len(accounts)', Len(accounts)' \in Nat
    PROVE  /\ UNCHANGED <<cms, secrets, cwatch, swatch>> => ApiOK'
           /\ UNCHANGED cacheVars => CacheOK'
           /\ UNCHANGED job => JobOK'
<1>1. CaOK
  BY DEF IndInv
<1>2. /\ KeptConfigMap \subseteq KeptConfigMap' /\ KeptSecret \subseteq KeptSecret'
      /\ KeptJob \subseteq KeptJob'
      /\ Seq(KeptConfigMap) \subseteq Seq(KeptConfigMap')
      /\ Seq(KeptSecret) \subseteq Seq(KeptSecret')
  BY <1>1, KeptGrows
<1>3. UNCHANGED <<cms, secrets, cwatch, swatch>> => ApiOK'
  BY <1>2 DEF IndInv, ApiOK
<1>4. UNCHANGED cacheVars => CacheOK'
  BY <1>2 DEF IndInv, CacheOK, cacheVars
<1>5. UNCHANGED job => JobOK'
  BY <1>2 DEF IndInv, JobOK
<1> QED
  BY <1>3, <1>4, <1>5

\* A version of a ConfigMap reaches API server and watch.
LEMMA WriteConfigMapOK ==
    ASSUME IndInv, NEW i \in Issuers, NEW v \in KeptConfigMap, WriteConfigMap(i, v)
    PROVE  ApiOK' /\ UNCHANGED stored
<1>1. UNCHANGED stored /\ KeptConfigMap' = KeptConfigMap /\ KeptSecret' = KeptSecret
  BY DEF WriteConfigMap, KeptConfigMap, KeptSecret, KeptIds
<1>2. cms' \in [Issuers -> KeptConfigMap] /\ UNCHANGED <<secrets, swatch>>
  BY DEF WriteConfigMap, IndInv, ApiOK
<1>3. cwatch' \in [Issuers -> Seq(KeptConfigMap)]
  <2>1. \A s \in Seq(KeptConfigMap) : Append(s, v) \in Seq(KeptConfigMap)
    OBVIOUS
  <2> QED
    BY <2>1 DEF WriteConfigMap, IndInv, ApiOK
<1> QED
  BY <1>1, <1>2, <1>3 DEF IndInv, ApiOK

\* A version of a Secret reaches API server and watch, and its key is stored.
LEMMA WriteSecretOK ==
    ASSUME IndInv, NEW s \in Issuers, NEW v \in Secret, v.key \in 0 .. Len(accounts),
           WriteSecret(s, v), UNCHANGED caVars
    PROVE  ApiOK' /\ CaOK' /\ stored \subseteq stored'
<1>1. stored' = stored \cup ({v.key} \ {0})
  BY DEF WriteSecret
<1>2. Len(accounts) \in Nat /\ CaOK
  BY DEF IndInv, CaOK
<1>3. CaOK'
  <2>1. UNCHANGED accounts /\ v.key \in Nat
    BY <1>2 DEF caVars
  <2>2. stored' \subseteq 1 .. Len(accounts)
    <3>1. CASE v.key = 0
      BY <1>1, <1>2, <3>1 DEF CaOK
    <3>2. CASE v.key # 0
      <4>1. v.key \in 1 .. Len(accounts)
        BY <1>2, <2>1, <3>2
      <4>2. stored' = stored \cup {v.key}
        BY <1>1, <3>2
      <4> QED
        BY <1>2, <4>1, <4>2 DEF CaOK
    <3> QED
      BY <3>1, <3>2
  <2> QED
    BY <1>2, <2>1, <2>2 DEF CaOK
<1>4. /\ KeptConfigMap \subseteq KeptConfigMap' /\ KeptSecret \subseteq KeptSecret'
      /\ Seq(KeptConfigMap) \subseteq Seq(KeptConfigMap')
      /\ Seq(KeptSecret) \subseteq Seq(KeptSecret')
  BY <1>1, <1>2, KeptGrows DEF caVars
<1>5. v \in KeptSecret'
  BY <1>1 DEF KeptSecret, KeptIds
<1>6. cms' \in [Issuers -> KeptConfigMap'] /\ cwatch' \in [Issuers -> Seq(KeptConfigMap')]
  BY <1>4 DEF WriteSecret, IndInv, ApiOK
<1>7. secrets' \in [Issuers -> KeptSecret']
  BY <1>4, <1>5 DEF WriteSecret, IndInv, ApiOK
<1>8. swatch' \in [Issuers -> Seq(KeptSecret')]
  <2>1. \A q \in Seq(KeptSecret) : Append(q, v) \in Seq(KeptSecret')
    BY <1>4, <1>5
  <2> QED
    BY <1>4, <2>1 DEF WriteSecret, IndInv, ApiOK
<1> QED
  BY <1>1, <1>3, <1>6, <1>7, <1>8 DEF ApiOK

\* A sync returns.
LEMMA ReturnOK ==
    ASSUME IndInv, stored \subseteq stored', Len(accounts) <= Len(accounts)', Len(accounts)' \in Nat,
           NEW i \in Issuers, ReturnNil(i) \/ ReturnErr(i)
    PROVE  JobOK' /\ retry' \subseteq Issuers
<1>1. CaOK /\ job \in [Issuers -> KeptJob] /\ retry \subseteq Issuers
  BY DEF IndInv, JobOK, QueueOK
<1>2. KeptJob \subseteq KeptJob' /\ Idle \in KeptJob'
  BY <1>1, KeptGrows DEF KeptJob
<1>3. job' = [job EXCEPT ![i] = Idle]
  BY DEF ReturnNil, ReturnErr
<1> QED
  BY <1>1, <1>2, <1>3 DEF JobOK, ReturnNil, ReturnErr

\* A sync goes on to another call.
LEMMA GotoOK ==
    ASSUME IndInv, stored \subseteq stored', Len(accounts) <= Len(accounts)', Len(accounts)' \in Nat,
           NEW i \in Issuers, NEW todo \in {"register", "create", "getReg", "update"},
           NEW base \in ConfigMap, NEW cm \in KeptConfigMap, NEW key \in AccountIds,
           todo \in {"getReg", "update"} => key \in KeptIds,
           cm.secretName \in Issuers, todo = "getReg" => key # 0,
           todo = "create" => key \in 1 .. Len(accounts)',
           Goto(i, todo, base, cm, key)
    PROVE  JobOK' /\ retry' \subseteq Issuers
<1>1. CaOK /\ job \in [Issuers -> KeptJob] /\ retry \subseteq Issuers
  BY DEF IndInv, JobOK, QueueOK
<1>2. KeptJob \subseteq KeptJob'
  BY <1>1, KeptGrows
<1>3. [todo |-> todo, base |-> base, cm |-> cm, key |-> key] \in KeptJob'
  BY DEF KeptJob, KeptConfigMap, KeptIds
<1> QED
  BY <1>1, <1>2, <1>3 DEF JobOK, Goto

-----------------------------------------------------------------------------
(* One lemma per kind of step. *)

\* Steps that change neither accounts nor what is stored.
LEMMA Constant ==
    ASSUME IndInv, UNCHANGED <<accounts, stored>>
    PROVE  /\ stored \subseteq stored' /\ Len(accounts) <= Len(accounts)' /\ Len(accounts)' \in Nat
           /\ CaOK'
BY DEF IndInv, CaOK

LEMMA LimitStays == ASSUME IndInv, UNCHANGED limited PROVE LimitOK'
BY Zenon DEF IndInv, LimitOK

\* The name is filled in, the rest of the issuer stays.
LEMMA NamedOK ==
    ASSUME NEW i \in Issuers, NEW c \in KeptConfigMap
    PROVE  Named(i, c) \in KeptConfigMap /\ Named(i, c).secretName \in Issuers
BY NamesAssumption DEF Named, KeptConfigMap, ConfigMap

LEMMA StartSyncOK == ASSUME IndInv, NEW i \in Issuers, StartSync(i) PROVE IndInv'
<1> DEFINE c == ccache[i]
           n == Named(i, c)
           s == scache[n.secretName]
<1>1. /\ UNCHANGED <<cms, secrets, cwatch, swatch, stored, ccache, scache, accounts, limited>>
      /\ UNCHANGED <<edits, faults>> /\ queue' \subseteq queue
  BY DEF StartSync, apiVars, cacheVars, caVars
<1>2. /\ stored \subseteq stored' /\ Len(accounts) <= Len(accounts)' /\ Len(accounts)' \in Nat
      /\ CaOK' /\ LimitOK'
  BY <1>1, Constant, LimitStays
<1>3. ApiOK' /\ CacheOK' /\ CountOK'
  BY <1>1, <1>2, Untouched DEF cacheVars, IndInv, CountOK
<1>4. /\ c \in KeptConfigMap /\ c \in ConfigMap /\ n \in KeptConfigMap /\ n.secretName \in Issuers
      /\ s \in KeptSecret
      /\ s.key \in KeptIds /\ s.key \in AccountIds /\ 0 \in AccountIds
  BY NamedOK, BoundsAssumption DEF IndInv, CacheOK, KeptConfigMap, KeptSecret, Secret, AccountIds
<1>5. \/ ReturnNil(i) \/ ReturnErr(i)
      \/ Goto(i, "register", c, n, 0)
      \/ s.key # 0 /\ Goto(i, "getReg", c, n, s.key)
      \/ Goto(i, "update", c, n, s.key)
  BY Zenon DEF StartSync
<1> HIDE DEF c, n, s
<1>6. JobOK' /\ retry' \subseteq Issuers
  <2>1. CASE ReturnNil(i) \/ ReturnErr(i)
    BY <1>2, <2>1, ReturnOK
  <2>2. CASE Goto(i, "register", c, n, 0)
    BY <1>2, <1>4, <2>2, GotoOK
  <2>3. CASE s.key # 0 /\ Goto(i, "getReg", c, n, s.key)
    BY <1>2, <1>4, <2>3, GotoOK
  <2>4. CASE Goto(i, "update", c, n, s.key)
    BY <1>2, <1>4, <2>4, GotoOK
  <2> QED
    BY <1>5, <2>1, <2>2, <2>3, <2>4
<1> QED
  BY <1>1, <1>2, <1>3, <1>6 DEF IndInv, QueueOK

\* What the sync of a key carries.
LEMMA JobFacts ==
    ASSUME IndInv, NEW i \in Issuers, job[i].todo \in {"register", "create", "getReg", "update"}
    PROVE  /\ job[i].base \in ConfigMap /\ job[i].cm \in KeptConfigMap /\ job[i].key \in AccountIds
           /\ job[i].cm.secretName \in Issuers
           /\ job[i].todo \in {"getReg", "update"} => job[i].key \in KeptIds
           /\ job[i].todo = "getReg" => job[i].key # 0
           /\ job[i].todo = "create" => job[i].key \in 1 .. Len(accounts)
<1>1. job[i] \in KeptJob /\ job[i] # Idle
  BY DEF IndInv, JobOK, Idle
<1> QED
  BY <1>1 DEF KeptJob, KeptConfigMap

LEMMA FaultOK == ASSUME IndInv, Fault \/ NoFault, UNCHANGED edits PROVE CountOK'
BY BoundsAssumption DEF IndInv, CountOK, Fault, NoFault

LEMMA RegisterOK == ASSUME IndInv, NEW i \in Issuers, Register(i) PROVE IndInv'
<1> DEFINE j == job[i]
           grant == /\ Len(accounts) < MaxAccounts
                    /\ accounts' = Append(accounts, j.cm.contacts)
<1>1. /\ UNCHANGED <<cms, secrets, cwatch, swatch, stored, ccache, scache, queue, edits>>
      /\ Fault \/ NoFault
      /\ j.todo = "register"
  BY DEF Register, apiVars, cacheVars
<1>2. /\ j.base \in ConfigMap /\ j.cm \in KeptConfigMap /\ j.cm.contacts \in Contacts
      /\ j.cm.secretName \in Issuers
  BY <1>1, JobFacts DEF KeptConfigMap, ConfigMap
<1>3. /\ UNCHANGED accounts \/ grant
      /\ \/ ReturnErr(i)
         \/ grant /\ Goto(i, "create", j.base, j.cm, Len(accounts) + 1)
  BY DEF Register, RegisterFails, caVars
<1>4. limited' \in BOOLEAN
  BY Zenon DEF Register, IndInv, LimitOK, caVars
<1>5. accounts \in Seq(Contacts) /\ Len(accounts) <= MaxAccounts /\ stored \subseteq 1 .. Len(accounts)
  BY DEF IndInv, CaOK
<1>6. grant => accounts' \in Seq(Contacts) /\ Len(accounts)' = Len(accounts) + 1
  BY <1>2, <1>5
<1>7. /\ stored \subseteq stored' /\ Len(accounts) <= Len(accounts)' /\ Len(accounts)' \in Nat /\ CaOK'
  <2>1. CASE UNCHANGED accounts
    BY <1>1, <2>1, Constant
  <2>2. CASE grant
    BY <1>1, <1>5, <1>6, <2>2, BoundsAssumption DEF CaOK
  <2> QED
    BY <1>3, <2>1, <2>2
<1>8. ApiOK' /\ CacheOK' /\ CountOK'
  BY <1>1, <1>7, Untouched, FaultOK DEF cacheVars
<1>9. JobOK' /\ retry' \subseteq Issuers
  <2>1. CASE ReturnErr(i)
    BY <1>7, <2>1, ReturnOK
  <2>2. CASE grant /\ Goto(i, "create", j.base, j.cm, Len(accounts) + 1)
    <3>1. Len(accounts) + 1 \in AccountIds /\ Len(accounts) + 1 \in 1 .. Len(accounts)'
      BY <1>5, <1>6, <2>2, BoundsAssumption DEF AccountIds
    <3> HIDE DEF j, grant
    <3> QED
      BY <1>2, <1>7, <2>2, <3>1, GotoOK
  <2> QED
    BY <1>3, <2>1, <2>2
<1> QED
  BY <1>1, <1>4, <1>7, <1>8, <1>9 DEF IndInv, QueueOK, LimitOK

LEMMA CreateSecretOK == ASSUME IndInv, NEW i \in Issuers, CreateSecret(i) PROVE IndInv'
<1> DEFINE j == job[i]
           v == [exists |-> TRUE, key |-> j.key]
<1>1. /\ UNCHANGED <<ccache, scache, queue, accounts, limited, edits>>
      /\ Fault \/ NoFault
      /\ j.todo = "create" /\ ReturnErr(i)
      /\ UNCHANGED <<cms, secrets, cwatch, swatch, stored>> \/ WriteSecret(j.cm.secretName, v)
  BY DEF CreateSecret, EndCreate, cacheVars, caVars, apiVars
<1>2. /\ j.cm.secretName \in Issuers /\ j.key \in AccountIds /\ j.key \in 1 .. Len(accounts)
  BY <1>1, JobFacts
<1>3. ApiOK' /\ CaOK' /\ stored \subseteq stored'
  <2>1. CASE UNCHANGED <<cms, secrets, cwatch, swatch, stored>>
    BY <1>1, <2>1, Constant, Untouched
  <2>2. CASE WriteSecret(j.cm.secretName, v)
    <3>1. v \in Secret /\ v.key \in 0 .. Len(accounts)
      BY <1>2 DEF Secret, IndInv, CaOK
    <3> HIDE DEF j, v
    <3> QED
      BY <1>1, <1>2, <2>2, <3>1, WriteSecretOK DEF caVars
  <2> QED
    BY <1>1, <2>1, <2>2
<1>4. /\ Len(accounts) <= Len(accounts)' /\ Len(accounts)' \in Nat
  BY <1>1 DEF IndInv, CaOK
<1>5. CacheOK' /\ CountOK' /\ LimitOK'
  BY <1>1, <1>3, <1>4, Untouched, FaultOK, LimitStays DEF cacheVars
<1>6. JobOK' /\ retry' \subseteq Issuers
  BY <1>1, <1>3, <1>4, ReturnOK
<1> QED
  BY <1>1, <1>3, <1>5, <1>6 DEF IndInv, QueueOK

LEMMA GetRegOK == ASSUME IndInv, NEW i \in Issuers, GetReg(i) PROVE IndInv'
<1> DEFINE j == job[i]
           r == Record(j.cm, j.key)
<1>1. /\ UNCHANGED <<cms, secrets, cwatch, swatch, stored, ccache, scache, queue>>
      /\ UNCHANGED <<accounts, limited, edits>>
      /\ Fault \/ NoFault
      /\ j.todo = "getReg"
      /\ ReturnErr(i) \/ Goto(i, "update", j.base, r, j.key)
  BY DEF GetReg, cacheVars, caVars, apiVars
<1>2. /\ j.base \in ConfigMap /\ j.cm \in KeptConfigMap /\ j.key \in AccountIds
      /\ j.key \in KeptIds /\ j.key # 0 /\ j.cm.secretName \in Issuers
  BY <1>1, JobFacts
<1>3. j.key \in 1 .. Len(accounts) /\ accounts[j.key] \in Contacts
  <2>1. accounts \in Seq(Contacts) /\ stored \subseteq 1 .. Len(accounts)
    BY DEF IndInv, CaOK
  <2>2. \A k \in 1 .. Len(accounts) : accounts[k] \in Contacts
    BY <2>1
  <2>3. j.key \in stored
    BY <1>2 DEF KeptIds
  <2> HIDE DEF j, r
  <2> QED
    BY <2>1, <2>2, <2>3
<1>4. r \in KeptConfigMap /\ r.secretName \in Issuers
  BY <1>2, <1>3 DEF Record, KeptConfigMap, ConfigMap
<1>5. /\ stored \subseteq stored' /\ Len(accounts) <= Len(accounts)' /\ Len(accounts)' \in Nat
      /\ CaOK' /\ LimitOK'
  BY <1>1, Constant, LimitStays
<1>6. ApiOK' /\ CacheOK' /\ CountOK'
  BY <1>1, <1>5, Untouched, FaultOK DEF cacheVars
<1> HIDE DEF j, r
<1>7. JobOK' /\ retry' \subseteq Issuers
  BY <1>1, <1>2, <1>4, <1>5, ReturnOK, GotoOK
<1> QED
  BY <1>1, <1>5, <1>6, <1>7 DEF IndInv, QueueOK

LEMMA UpdateConfigMapOK == ASSUME IndInv, NEW i \in Issuers, UpdateConfigMap(i) PROVE IndInv'
<1>1. /\ UNCHANGED <<ccache, scache, queue, accounts, limited, edits>>
      /\ Fault \/ NoFault
      /\ job[i].todo = "update"
      /\ ReturnErr(i) \/ ReturnNil(i)
      /\ UNCHANGED <<cms, secrets, cwatch, swatch, stored>> \/ WriteConfigMap(i, job[i].cm)
  BY DEF UpdateConfigMap, cacheVars, caVars, apiVars
<1>2. job[i].cm \in KeptConfigMap
  BY <1>1, JobFacts DEF UpdateConfigMap
<1>3. UNCHANGED stored
  BY <1>1, <1>2, WriteConfigMapOK
<1>4. /\ stored \subseteq stored' /\ Len(accounts) <= Len(accounts)' /\ Len(accounts)' \in Nat
      /\ CaOK' /\ LimitOK'
  BY <1>1, <1>3, Constant, LimitStays
<1>5. ApiOK' /\ CacheOK' /\ CountOK'
  BY <1>1, <1>2, <1>4, Untouched, WriteConfigMapOK, FaultOK DEF cacheVars, UpdateConfigMap
<1>6. JobOK' /\ retry' \subseteq Issuers
  BY <1>1, <1>4, ReturnOK DEF UpdateConfigMap
<1> QED
  BY <1>1, <1>4, <1>5, <1>6 DEF IndInv, QueueOK

LEMMA InformerOK ==
    ASSUME IndInv, NEW i \in Issuers, DeliverConfigMap(i) \/ DeliverSecret(i) \/ RetryFires(i)
    PROVE  IndInv'
<1>1. /\ UNCHANGED <<cms, secrets, stored, job, accounts, limited, edits, faults>>
      /\ queue' \subseteq Issuers /\ retry' \subseteq Issuers
  BY DEF DeliverConfigMap, DeliverSecret, RetryFires, UsersOf, apiVars, caVars, IndInv, QueueOK
<1>2. /\ stored \subseteq stored' /\ Len(accounts) <= Len(accounts)' /\ Len(accounts)' \in Nat
      /\ CaOK' /\ LimitOK'
  BY <1>1, Constant, LimitStays
<1>3. JobOK' /\ CountOK'
  BY <1>1, <1>2, Untouched DEF IndInv, CountOK
<1>4. KeptConfigMap' = KeptConfigMap /\ KeptSecret' = KeptSecret
  BY <1>1 DEF KeptConfigMap, KeptSecret, KeptIds
<1>5. ApiOK /\ CacheOK
  BY DEF IndInv
<1>6. ApiOK' /\ CacheOK'
  <2>1. CASE DeliverConfigMap(i)
    <3>1. cwatch[i] \in Seq(KeptConfigMap) /\ cwatch[i] # <<>>
      BY <1>5, <2>1 DEF ApiOK, DeliverConfigMap
    <3>2. Head(cwatch[i]) \in KeptConfigMap /\ Tail(cwatch[i]) \in Seq(KeptConfigMap)
      BY <3>1
    <3> QED
      BY <1>4, <1>5, <2>1, <3>2 DEF ApiOK, CacheOK, DeliverConfigMap
  <2>2. CASE DeliverSecret(i)
    <3>1. swatch[i] \in Seq(KeptSecret) /\ swatch[i] # <<>>
      BY <1>5, <2>2 DEF ApiOK, DeliverSecret
    <3>2. Head(swatch[i]) \in KeptSecret /\ Tail(swatch[i]) \in Seq(KeptSecret)
      BY <3>1
    <3> QED
      BY <1>4, <1>5, <2>2, <3>2 DEF ApiOK, CacheOK, DeliverSecret
  <2>3. CASE RetryFires(i)
    BY <1>2, <2>3, Untouched DEF RetryFires, apiVars, cacheVars
  <2> QED
    BY <2>1, <2>2, <2>3
<1> QED
  BY <1>1, <1>2, <1>3, <1>6 DEF IndInv, QueueOK

LEMMA CrashOK == ASSUME IndInv, Crash PROVE IndInv'
<1>1. UNCHANGED <<cms, secrets, stored, accounts, limited, edits>> /\ Fault
  BY DEF Crash, caVars
<1>2. CaOK' /\ LimitOK' /\ CountOK'
  BY <1>1, Constant, LimitStays, FaultOK
<1>3. KeptConfigMap' = KeptConfigMap /\ KeptSecret' = KeptSecret
  BY <1>1 DEF KeptConfigMap, KeptSecret, KeptIds
<1>4. ApiOK' /\ CacheOK'
  <2>1. \A S : <<>> \in Seq(S)
    OBVIOUS
  <2> QED
    BY <1>1, <1>3, <2>1 DEF IndInv, ApiOK, CacheOK, Crash
<1>5. JobOK' /\ QueueOK'
  BY DEF Crash, JobOK, KeptJob, QueueOK
<1> QED
  BY <1>2, <1>4, <1>5 DEF IndInv

LEMMA EditOK == ASSUME IndInv, NEW i \in Issuers, EditStep(i) PROVE IndInv'
<1>1. /\ UNCHANGED <<ccache, scache, queue, retry, job, accounts, limited, faults>>
      /\ edits < MaxEdits /\ edits' = edits + 1
  BY DEF EditStep, ApplyIssuer, EditContacts, EditKind, EditPrio, ToggleLabel, DeleteIssuer,
      DeleteSecret, ForeignSecret, UserStep, cacheVars, caVars
<1>2. CountOK' /\ LimitOK'
  BY <1>1, LimitStays, BoundsAssumption DEF IndInv, CountOK
<1>3. cms[i] \in KeptConfigMap /\ edits \in Nat
  BY BoundsAssumption DEF IndInv, ApiOK, CountOK
<1>4. ApiOK' /\ CaOK' /\ stored \subseteq stored'
  <2>1. ASSUME NEW v \in KeptConfigMap, WriteConfigMap(i, v) PROVE ApiOK' /\ CaOK' /\ stored \subseteq stored'
    <3>1. ApiOK' /\ UNCHANGED stored
      BY <2>1, WriteConfigMapOK
    <3> QED
      BY <1>1, <3>1, Constant
  <2>2. CASE ApplyIssuer(i)
    <3> DEFINE w(s) == [cms[i] EXCEPT !.exists = TRUE, !.labelled = TRUE, !.kind = "acme",
                                !.created = IF cms[i].exists THEN @ ELSE edits + 2,
                                !.secretName = s, !.uri = 0]
    <3>1. PICK s \in Issuers \cup {NoName} : WriteConfigMap(i, w(s))
      BY <2>2 DEF ApplyIssuer
    <3>2. w(s) \in KeptConfigMap
      <4> DEFINE n == IF cms[i].exists THEN cms[i].created ELSE edits + 2
      <4>1. n \in Nat
        <5>1. cms[i].created \in Nat
          BY <1>3 DEF KeptConfigMap, ConfigMap
        <5> QED
          BY <1>3, <5>1
      <4>2. 0 \in AccountIds
        BY BoundsAssumption DEF AccountIds
      <4>3. w(s) = [cms[i] EXCEPT !.exists = TRUE, !.labelled = TRUE, !.kind = "acme",
                                !.created = n, !.secretName = s, !.uri = 0]
        OBVIOUS
      <4> HIDE DEF n, w
      <4> QED
        BY <1>3, <4>1, <4>2, <4>3 DEF KeptConfigMap, ConfigMap, KeptIds
    <3> QED
      BY <2>1, <3>1, <3>2
  <2>3. CASE EditContacts(i)
    <3>1. PICK x \in Contacts : WriteConfigMap(i, [cms[i] EXCEPT !.contacts = x])
      BY <2>3 DEF EditContacts
    <3>2. [cms[i] EXCEPT !.contacts = x] \in KeptConfigMap
      BY <1>3 DEF KeptConfigMap, ConfigMap
    <3> QED
      BY <2>1, <3>1, <3>2
  <2>4. CASE EditKind(i)
    <3>1. PICK k \in {"acme", "other", "bad"} : WriteConfigMap(i, [cms[i] EXCEPT !.kind = k])
      BY <2>4 DEF EditKind
    <3>2. [cms[i] EXCEPT !.kind = k] \in KeptConfigMap
      BY <1>3 DEF KeptConfigMap, ConfigMap
    <3> QED
      BY <2>1, <3>1, <3>2
  <2>5. CASE EditPrio(i)
    <3>1. PICK q \in Prios \cup {NoPrio} : WriteConfigMap(i, [cms[i] EXCEPT !.prio = q])
      BY <2>5 DEF EditPrio
    <3>2. [cms[i] EXCEPT !.prio = q] \in KeptConfigMap
      BY <1>3 DEF KeptConfigMap, ConfigMap
    <3> QED
      BY <2>1, <3>1, <3>2
  <2>6. CASE ToggleLabel(i)
    <3>1. [cms[i] EXCEPT !.labelled = ~ @] \in KeptConfigMap
      BY <1>3 DEF KeptConfigMap, ConfigMap
    <3> QED
      BY <2>1, <2>6, <3>1 DEF ToggleLabel
  <2>7. CASE DeleteIssuer(i)
    <3>1. [cms[i] EXCEPT !.exists = FALSE] \in KeptConfigMap
      BY <1>3 DEF KeptConfigMap, ConfigMap
    <3> QED
      BY <2>1, <2>7, <3>1 DEF DeleteIssuer
  <2>8. CASE DeleteSecret(i) \/ ForeignSecret(i)
    <3>1. PICK v \in {NoSecret, [exists |-> TRUE, key |-> 0]} : WriteSecret(i, v)
      BY <2>8 DEF DeleteSecret, ForeignSecret
    <3>2. v.exists \in BOOLEAN /\ v.key = 0 /\ v = [exists |-> v.exists, key |-> v.key]
      <4>1. CASE v = NoSecret
        BY <4>1 DEF NoSecret
      <4>2. CASE v = [exists |-> TRUE, key |-> 0]
        BY <4>2
      <4> QED
        BY <3>1, <4>1, <4>2
    <3>3. 0 \in AccountIds /\ 0 \in 0 .. Len(accounts)
      BY BoundsAssumption DEF AccountIds, IndInv, CaOK
    <3>4. v \in Secret /\ v.key \in 0 .. Len(accounts)
      BY <3>2, <3>3 DEF Secret
    <3> QED
      BY <1>1, <3>1, <3>4, WriteSecretOK DEF caVars
  <2> QED
    BY <2>2, <2>3, <2>4, <2>5, <2>6, <2>7, <2>8 DEF EditStep
<1>5. /\ Len(accounts) <= Len(accounts)' /\ Len(accounts)' \in Nat
  BY <1>1 DEF IndInv, CaOK
<1>6. CacheOK' /\ JobOK'
  BY <1>1, <1>4, <1>5, Untouched DEF cacheVars
<1> QED
  BY <1>1, <1>2, <1>4, <1>6 DEF IndInv, QueueOK

-----------------------------------------------------------------------------

\* Every step preserves the invariant.
LEMMA NextInv == IndInv /\ [Next]_vars => IndInv'
<1> SUFFICES ASSUME IndInv, [Next]_vars PROVE IndInv'
  OBVIOUS
<1>1. CASE UNCHANGED vars
  BY <1>1 DEF vars, IndInv, ApiOK, CacheOK, JobOK, CaOK, LimitOK, QueueOK, CountOK,
      KeptConfigMap, KeptSecret, KeptJob, KeptIds
<1>2. CASE Crash
  BY <1>2, CrashOK
<1>3. ASSUME NEW i \in Issuers, SyncStep(i) PROVE IndInv'
  BY <1>3, StartSyncOK, RegisterOK, CreateSecretOK, GetRegOK, UpdateConfigMapOK DEF SyncStep
<1>4. ASSUME NEW i \in Issuers, DeliverConfigMap(i) \/ DeliverSecret(i) \/ RetryFires(i)
      PROVE  IndInv'
  BY <1>4, InformerOK
<1>5. ASSUME NEW i \in Issuers, EditStep(i) PROVE IndInv'
  BY <1>5, EditOK
<1> QED
  BY <1>1, <1>2, <1>3, <1>4, <1>5 DEF Next

\* The invariant holds in every reachable state.
LEMMA SpecInv == Spec => []IndInv
BY InitInv, NextInv, PTL DEF Spec

\* Every variable of the account controller keeps its type, its caches and its
\* interrupted syncs included.
THEOREM TypeCorrect == Spec => []TypeOK
BY SpecInv, InvType, PTL

\* Whatever call fails, whenever the process dies and however stale the caches are:
\* a ConfigMap that sync updated never records an account whose key was not stored
\* in a Secret.
THEOREM KeysAreStored == Spec => []RecordedAccountWasStored
<1>1. IndInv => RecordedAccountWasStored
  BY DEF IndInv, ApiOK, KeptConfigMap, KeptIds, RecordedAccountWasStored
<1> QED
  BY <1>1, SpecInv, PTL

-----------------------------------------------------------------------------
(* No wake-up is missed.  SettledOrScheduled speaks of issuers about which  *)
(* the informers have nothing to tell; what is inductive asks less of them: *)
(* an undelivered version of the ConfigMap counts as a wake-up to come, and *)
(* undelivered Secrets need not be mentioned.                               *)

Live(i)    == ccache[i].exists /\ ccache[i].labelled /\ ccache[i].kind = "acme"
Pending(i) == i \in queue \cup retry \/ job[i] # Idle \/ cwatch[i] # <<>>
Settled(i) == /\ ccache[i].uri # 0 /\ ccache[i].secretName # NoName
              /\ scache[ccache[i].secretName].exists
Rests(i)   == Live(i) => Pending(i) \/ Settled(i)

WakeInv == \A i \in Issuers : Rests(i)

\* A step that changes nothing in the caches about an issuer and takes nothing from
\* what is pending for it.
LEMMA RestsStays ==
    ASSUME NEW k \in Issuers, Rests(k), ccache'[k] = ccache[k], scache' = scache,
           k \in queue \cup retry => k \in queue' \cup retry',
           job[k] # Idle => job'[k] # Idle, cwatch[k] # <<>> => cwatch'[k] # <<>>
    PROVE  Rests(k)'
BY DEF Rests, Live, Pending, Settled

LEMMA PendingRests == ASSUME NEW k \in Issuers, Pending(k)' PROVE Rests(k)'
BY DEF Rests

\* A sync that has more calls to make, or failed, is pending.
LEMMA GoesOn ==
    ASSUME IndInv, NEW i \in Issuers, NEW todo \in {"register", "create", "getReg", "update"},
           NEW base, NEW cm, NEW key, Goto(i, todo, base, cm, key)
    PROVE  Pending(i)'
<1>1. job'[i] = [todo |-> todo, base |-> base, cm |-> cm, key |-> key]
  BY DEF Goto, IndInv, JobOK
<1>2. job'[i].todo # Idle.todo
  BY <1>1 DEF Idle
<1> QED
  BY <1>2 DEF Pending

LEMMA Fails == ASSUME NEW i \in Issuers, ReturnErr(i) PROVE Pending(i)'
BY DEF ReturnErr, Pending

\* A version of the ConfigMap that has been written is still to be delivered.
LEMMA Written ==
    ASSUME IndInv, NEW i \in Issuers, NEW v, WriteConfigMap(i, v)
    PROVE  Pending(i)' /\ \A k \in Issuers : cwatch[k] # <<>> => cwatch'[k] # <<>>
<1>1. cwatch \in [Issuers -> Seq(KeptConfigMap)]
  BY DEF IndInv, ApiOK
<1>2. \A q \in Seq(KeptConfigMap) : Append(q, v) # <<>>
  <2> SUFFICES ASSUME NEW q \in Seq(KeptConfigMap) PROVE Append(q, v) # <<>>
    OBVIOUS
  <2> DEFINE S == KeptConfigMap \cup {v}
  <2>1. q \in Seq(S) /\ v \in S
    OBVIOUS
  <2> HIDE DEF S
  <2> QED
    BY <2>1, AppendProperties
<1>3. cwatch' = [cwatch EXCEPT ![i] = Append(cwatch[i], v)]
  BY DEF WriteConfigMap
<1> QED
  BY <1>1, <1>2, <1>3 DEF Pending

\* The sync of one key takes nothing from another.
LEMMA OtherKeys ==
    ASSUME IndInv, WakeInv, NEW i \in Issuers, NEW k \in Issuers, k # i, SyncStep(i)
    PROVE  Rests(k)'
<1>1. UNCHANGED <<ccache, scache>> /\ queue \ {i} \subseteq queue'
  BY DEF SyncStep, StartSync, Register, CreateSecret, GetReg, UpdateConfigMap, cacheVars
<1>2. /\ retry \subseteq retry'
      /\ \E x : job' = [job EXCEPT ![i] = x]
  BY DEF SyncStep, StartSync, Register, RegisterFails, CreateSecret, EndCreate, GetReg,
      UpdateConfigMap, ReturnNil, ReturnErr, Goto
<1>3. job'[k] = job[k]
  BY <1>2 DEF IndInv, JobOK
<1>4. UNCHANGED cwatch \/ \E v : WriteConfigMap(i, v)
  BY DEF SyncStep, StartSync, Register, CreateSecret, GetReg, UpdateConfigMap, WriteSecret, apiVars
<1>5. cwatch[k] # <<>> => cwatch'[k] # <<>>
  BY <1>4, Written
<1> QED
  BY <1>1, <1>2, <1>3, <1>5, RestsStays DEF WakeInv

\* sync leaves its own key settled or pending.
LEMMA OwnKey == ASSUME IndInv, NEW i \in Issuers, SyncStep(i) PROVE Rests(i)'
<1>1. CASE StartSync(i)
  <2> DEFINE c == ccache[i]
             n == Named(i, c)
             s == scache[n.secretName]
  <2>1. \/ ~ c.exists \/ c.kind = "other"
        \/ n = c /\ c.uri # 0 /\ s.exists
        \/ ReturnErr(i)
        \/ Goto(i, "register", c, n, 0) \/ Goto(i, "getReg", c, n, s.key)
        \/ Goto(i, "update", c, n, s.key)
    BY <1>1, Zenon DEF StartSync
  <2>2. UNCHANGED <<ccache, scache>>
    BY <1>1 DEF StartSync, cacheVars
  <2>3. c \in KeptConfigMap /\ n.secretName \in Issuers
    BY NamedOK DEF IndInv, CacheOK
  <2>4. CASE ~ c.exists \/ c.kind = "other"
    BY <2>2, <2>4 DEF Rests, Live
  <2>5. CASE n = c /\ c.uri # 0 /\ s.exists
    <3>1. c.secretName # NoName
      BY <2>3, <2>5, NamesAssumption
    <3> QED
      BY <2>2, <2>5, <3>1 DEF Rests, Settled
  <2> HIDE DEF c, n, s
  <2>6. CASE ReturnErr(i)
    BY <2>6, Fails, PendingRests
  <2>7. CASE \/ Goto(i, "register", c, n, 0) \/ Goto(i, "getReg", c, n, s.key)
             \/ Goto(i, "update", c, n, s.key)
    BY <2>7, GoesOn, PendingRests
  <2> QED
    BY <2>1, <2>4, <2>5, <2>6, <2>7
<1>2. CASE Register(i)
  BY <1>2, Fails, GoesOn, PendingRests DEF Register, RegisterFails
<1>3. CASE CreateSecret(i)
  BY <1>3, Fails, PendingRests DEF CreateSecret, EndCreate
<1>4. CASE GetReg(i)
  BY <1>4, Fails, GoesOn, PendingRests DEF GetReg
<1>5. CASE UpdateConfigMap(i)
  BY <1>5, Fails, Written, PendingRests DEF UpdateConfigMap
<1> QED
  BY <1>1, <1>2, <1>3, <1>4, <1>5 DEF SyncStep

\* The handlers of the informers.
LEMMA DeliveryWakes ==
    ASSUME IndInv, WakeInv, NEW i \in Issuers, NEW k \in Issuers,
           DeliverConfigMap(i) \/ DeliverSecret(i) \/ RetryFires(i)
    PROVE  Rests(k)'
<1>1. UNCHANGED job /\ Rests(k)
  BY DEF DeliverConfigMap, DeliverSecret, RetryFires, WakeInv
<1>2. CASE DeliverConfigMap(i)
  <2>1. ccache' = [ccache EXCEPT ![i] = Head(cwatch[i])] /\ UNCHANGED <<scache, retry>>
        /\ cwatch' = [cwatch EXCEPT ![i] = Tail(cwatch[i])] /\ queue \subseteq queue'
    BY <1>2 DEF DeliverConfigMap
  <2>2. CASE k # i
    <3>1. ccache'[k] = ccache[k] /\ cwatch'[k] = cwatch[k]
      BY <2>1, <2>2 DEF IndInv, CacheOK, ApiOK
    <3> QED
      BY <1>1, <2>1, <3>1, RestsStays
  <2>3. CASE k = i
    <3>1. ccache'[i] = Head(cwatch[i])
      BY <2>1 DEF IndInv, CacheOK
    <3>2. Live(i)' => i \in queue'
      BY <1>2, <3>1 DEF DeliverConfigMap, Live
    <3> QED
      BY <2>3, <3>2 DEF Rests, Pending
  <2> QED
    BY <2>2, <2>3
<1>3. CASE DeliverSecret(i)
  <2>1. /\ scache' = [scache EXCEPT ![i] = Head(swatch[i])] /\ UNCHANGED <<ccache, cwatch, retry>>
        /\ queue \subseteq queue' /\ (~ Head(swatch[i]).exists => UsersOf(i) \subseteq queue')
    BY <1>3 DEF DeliverSecret
  <2>2. CASE ~ Live(k)
    BY <2>1, <2>2 DEF Rests, Live
  <2>3. CASE Pending(k)
    BY <1>1, <2>1, <2>3, PendingRests DEF Pending
  <2>4. CASE Live(k) /\ Settled(k)
    <3>1. CASE ccache[k].secretName # i \/ Head(swatch[i]).exists
      <4>1. ccache[k].secretName \in Issuers
        BY <2>4 DEF Settled, IndInv, CacheOK, KeptConfigMap, ConfigMap
      <4>2. scache'[ccache[k].secretName].exists
        BY <2>1, <2>4, <3>1, <4>1 DEF Settled, IndInv, CacheOK
      <4> QED
        BY <2>1, <2>4, <4>2 DEF Rests, Settled
    <3>2. CASE ccache[k].secretName = i /\ ~ Head(swatch[i]).exists
      <4>1. k \in UsersOf(i)
        BY <2>4, <3>2 DEF UsersOf, Live
      <4> QED
        BY <2>1, <3>2, <4>1 DEF Rests, Pending
    <3> QED
      BY <3>1, <3>2
  <2> QED
    BY <1>1, <2>2, <2>3, <2>4 DEF Rests
<1>4. CASE RetryFires(i)
  <2>1. UNCHANGED <<ccache, scache, cwatch>> /\ queue \cup retry \subseteq queue' \cup retry'
    BY <1>4 DEF RetryFires, cacheVars, apiVars
  <2> QED
    BY <1>1, <2>1, RestsStays
<1> QED
  BY <1>2, <1>3, <1>4

\* Users change the API server only, and what they write of an issuer is delivered.
LEMMA EditWakes ==
    ASSUME IndInv, WakeInv, NEW i \in Issuers, NEW k \in Issuers, EditStep(i)
    PROVE  Rests(k)'
<1>1. UNCHANGED <<ccache, scache, queue, retry, job>>
  BY DEF EditStep, ApplyIssuer, EditContacts, EditKind, EditPrio, ToggleLabel, DeleteIssuer,
      DeleteSecret, ForeignSecret, UserStep, cacheVars
<1>2. UNCHANGED cwatch \/ \E v : WriteConfigMap(i, v)
  BY DEF EditStep, ApplyIssuer, EditContacts, EditKind, EditPrio, ToggleLabel, DeleteIssuer,
      DeleteSecret, ForeignSecret, WriteSecret
<1>3. cwatch[k] # <<>> => cwatch'[k] # <<>>
  BY <1>2, Written
<1> QED
  BY <1>1, <1>3, RestsStays DEF WakeInv

LEMMA NextWakes == IndInv /\ WakeInv /\ [Next]_vars => WakeInv'
<1> SUFFICES ASSUME IndInv, WakeInv, [Next]_vars, NEW k \in Issuers PROVE Rests(k)'
  BY DEF WakeInv
<1>1. CASE UNCHANGED vars
  BY <1>1, RestsStays DEF vars, WakeInv
<1>2. CASE Crash
  BY <1>2 DEF Crash, Rests, Live, Pending
<1>3. ASSUME NEW i \in Issuers, SyncStep(i) PROVE Rests(k)'
  BY <1>3, OtherKeys, OwnKey
<1>4. ASSUME NEW i \in Issuers, DeliverConfigMap(i) \/ DeliverSecret(i) \/ RetryFires(i)
      PROVE  Rests(k)'
  BY <1>4, DeliveryWakes
<1>5. ASSUME NEW i \in Issuers, EditStep(i) PROVE Rests(k)'
  BY <1>5, EditWakes
<1> QED
  BY <1>1, <1>2, <1>3, <1>4, <1>5 DEF Next

\* The account controller misses no wake-up although its informers never resync: an
\* ACME issuer that is not settled is queued, delayed, being synced, or about to be
\* delivered.
THEOREM NoMissedWakeUp == Spec => []SettledOrScheduled
<1>1. Init => WakeInv
  BY DEF Init, WakeInv, Rests, Live, Pending
<1>2. WakeInv => SettledOrScheduled
  BY DEF WakeInv, Rests, Live, Pending, Settled, SettledOrScheduled, Told
<1> QED
  BY <1>1, <1>2, SpecInv, NextWakes, PTL DEF Spec

-----------------------------------------------------------------------------
(* The choice of an issuer.  The sort is an insertion sort, of which only    *)
(* the first element matters; a single element less than all others comes   *)
(* first in whatever order they are inserted.                               *)

\* l is sorted before r, and r not before l.
Before(l, r) == Less(l, r) /\ ~ Less(r, l)

\* What the comparison works on.
LEMMA PrioType ==
    ASSUME TypeOK, NEW i \in Issuers
    PROVE  Prio(i) \in Int /\ ccache[i].created \in Nat
<1>1. ccache[i] \in ConfigMap
  BY DEF TypeOK
<1>2. ccache[i].prio \in Prios \cup {NoPrio} /\ ccache[i].created \in Nat
  BY <1>1 DEF ConfigMap
<1>3. Prio(i) \in Prios \cup {0}
  BY <1>2 DEF Prio
<1>4. Prios \cup {0} \subseteq Int
  BY BoundsAssumption
<1> QED
  BY <1>2, <1>3, <1>4

\* Where number and age agree, the comparison is an order.
LEMMA BeforeTransitive ==
    ASSUME TypeOK, NEW l \in Issuers, NEW m \in Issuers, NEW r \in Issuers,
           Before(l, m), Before(m, r)
    PROVE  Before(l, r)
<1>1. \A i \in {l, m, r} : Prio(i) \in Int /\ ccache[i].created \in Nat
  BY PrioType
<1> HIDE DEF Prio
<1> QED
  BY <1>1 DEF Before, Less

\* Among candidates that are not ambiguous, one comes before the other.
LEMMA BeforeTotal ==
    ASSUME Unambiguous, NEW l \in Candidates(NoName), NEW r \in Candidates(NoName), l # r
    PROVE  Before(l, r) \/ Before(r, l)
BY DEF Unambiguous, Before

\* The candidates of a Route that names no issuer.
LEMMA CandidatesFinite ==
    /\ Candidates(NoName) \subseteq Issuers
    /\ IsFiniteSet(Candidates(NoName))
<1>1. Candidates(NoName) \subseteq Issuers
  BY NamesAssumption DEF Candidates
<1> QED
  BY <1>1, FiniteAssumption, FS_Subset

\* Inserting one element: it becomes the first, or the first stays and an element
\* that it is not less than is among the others.
Inserted(new, sorted, i) ==
    /\ Len(new) = Len(sorted) + 1
    /\ \A n \in 1 .. Len(new) :
          new[n] = i \/ \E m \in 1 .. Len(sorted) : new[n] = sorted[m]
    /\ \/ new[1] = i /\ \A k \in 1 .. Len(sorted) : Less(i, sorted[k])
       \/ \E k \in 1 .. Len(sorted) : new[1] = sorted[1] /\ ~ Less(i, sorted[k])

\* Placed does so.
LEMMA PlacedOK ==
    ASSUME NEW S, NEW sorted \in Seq(S), NEW i \in S
    PROVE  Placed(sorted, i) \in Seq(S) /\ Inserted(Placed(sorted, i), sorted, i)
<1> DEFINE n == Len(sorted)
           stays == {0} \cup {k \in 1 .. n : ~ Less(i, sorted[k])}
           after == CHOOSE k \in stays : \A j \in stays : j <= k
           left == SubSeq(sorted, 1, after)
           right == SubSeq(sorted, after + 1, n)
           new == Placed(sorted, i)
<1>1. n \in Nat /\ \A k \in 1 .. n : sorted[k] \in S
  BY LenProperties, ElementOfSeq
<1>2. stays \subseteq 0 .. n /\ stays # {}
  BY <1>1
<1>3. \E k \in stays : \A j \in stays : j <= k
  <2> HIDE DEF stays, n
  <2> QED
    BY <1>1, <1>2, GreatestNumber
<1>4. after \in stays /\ \A j \in stays : j <= after
  <2> HIDE DEF stays
  <2> QED
    BY <1>3
<1>5. after \in 0 .. n
  BY <1>2, <1>4
<1>6. new = (left \o <<i>>) \o right
  BY DEF Placed
<1> HIDE DEF new, after, n
<1>7. left \in Seq(S) /\ Len(left) = after /\ \A k \in 1 .. after : left[k] = sorted[k]
  <2>1. \A k \in 1 .. after : sorted[k] \in S /\ 1 + k - 1 = k
    BY <1>1, <1>5
  <2> QED
    BY <1>5, <2>1, SubSeqProperties
<1>8. /\ right \in Seq(S) /\ Len(right) = n - after
      /\ \A k \in 1 .. n - after : right[k] = sorted[after + k]
  <2>1. /\ \A k \in after + 1 .. n : sorted[k] \in S
        /\ after + 1 \in Int /\ n \in Int /\ n - (after + 1) + 1 = n - after
        /\ \A k \in 1 .. n - after : (after + 1) + k - 1 = after + k
    BY <1>1, <1>5
  <2>2. /\ right \in Seq(S)
        /\ Len(right) = IF after + 1 <= n THEN n - (after + 1) + 1 ELSE 0
        /\ \A k \in 1 .. n - (after + 1) + 1 : right[k] = sorted[(after + 1) + k - 1]
    BY <2>1, SubSeqProperties
  <2>3. Len(right) = n - after
    BY <1>1, <1>5, <2>2
  <2> QED
    BY <2>1, <2>2, <2>3
<1> HIDE DEF left, right
<1> DEFINE front == left \o <<i>>
<1>9. /\ front \in Seq(S) /\ Len(front) = after + 1
      /\ \A k \in 1 .. after + 1 : front[k] = IF k <= after THEN left[k] ELSE i
  <2>1. <<i>> \in Seq(S) /\ Len(<<i>>) = 1 /\ <<i>>[1] = i
    OBVIOUS
  <2>2. /\ front \in Seq(S) /\ Len(front) = Len(left) + 1
        /\ \A k \in 1 .. Len(left) + 1 :
              front[k] = IF k <= Len(left) THEN left[k] ELSE <<i>>[k - Len(left)]
    BY <1>7, <2>1, ConcatProperties
  <2>3. \A k \in 1 .. after + 1 : ~ (k <= after) => k - after = 1
    BY <1>5
  <2> QED
    BY <1>7, <2>1, <2>2, <2>3
<1> HIDE DEF front
<1>10. /\ new \in Seq(S) /\ Len(new) = n + 1
       /\ \A k \in 1 .. n + 1 : new[k] = IF k <= after + 1 THEN front[k] ELSE right[k - (after + 1)]
  <2>1. (after + 1) + (n - after) = n + 1
    BY <1>1, <1>5
  <2>2. /\ front \o right \in Seq(S) /\ Len(front \o right) = Len(front) + Len(right)
        /\ \A k \in 1 .. Len(front) + Len(right) :
              (front \o right)[k] = IF k <= Len(front) THEN front[k] ELSE right[k - Len(front)]
    BY <1>8, <1>9, ConcatProperties
  <2>3. new = front \o right
    BY <1>6 DEF front
  <2> QED
    BY <1>8, <1>9, <2>1, <2>2, <2>3
<1>11. ASSUME NEW k \in 1 .. n + 1
       PROVE  new[k] = i \/ \E m \in 1 .. n : new[k] = sorted[m]
  <2>1. CASE k <= after
    <3>1. k \in 1 .. after /\ k \in 1 .. after + 1 /\ k <= after + 1 /\ k \in 1 .. n
      BY <1>1, <1>5, <2>1
    <3> QED
      BY <1>7, <1>9, <1>10, <2>1, <3>1
  <2>2. CASE k = after + 1
    <3>1. k \in 1 .. after + 1 /\ k <= after + 1 /\ ~ (k <= after)
      BY <1>5, <2>2
    <3> QED
      BY <1>9, <1>10, <3>1
  <2>3. CASE k > after + 1
    <3>1. /\ ~ (k <= after + 1) /\ k - (after + 1) \in 1 .. n - after
          /\ after + (k - (after + 1)) = k - 1 /\ k - 1 \in 1 .. n
      BY <1>1, <1>5, <2>3
    <3> QED
      BY <1>8, <1>10, <3>1
  <2> QED
    BY <1>5, <2>1, <2>2, <2>3
<1>12. CASE after = 0
  <2>1. 1 \in 1 .. n + 1 /\ 1 <= after + 1 /\ 1 \in 1 .. after + 1 /\ ~ (1 <= after)
    BY <1>1, <1>12
  <2>2. new[1] = i
    BY <1>9, <1>10, <2>1
  <2>3. ASSUME NEW k \in 1 .. n PROVE Less(i, sorted[k])
    <3>1. ~ (k <= after)
      BY <1>1, <1>12
    <3> QED
      BY <1>4, <3>1
  <2> QED
    BY <1>10, <1>11, <2>2, <2>3 DEF n, new, Inserted
<1>13. CASE after # 0
  <2>1. 1 \in 1 .. n + 1 /\ 1 <= after + 1 /\ 1 \in 1 .. after + 1 /\ 1 <= after /\ 1 \in 1 .. after
    BY <1>1, <1>5, <1>13
  <2>2. new[1] = sorted[1]
    BY <1>7, <1>9, <1>10, <2>1
  <2>3. after \in 1 .. n /\ ~ Less(i, sorted[after])
    BY <1>1, <1>4, <1>5, <1>13
  <2> QED
    BY <1>10, <1>11, <2>2, <2>3 DEF n, new, Inserted
<1> QED
  BY <1>12, <1>13

\* The sort inserts the elements of the list one after the other.
LEMMA SortedRuns ==
    ASSUME NEW S, NEW list \in Seq(S)
    PROVE  \E run \in [0 .. Len(list) -> Seq(S)] :
             /\ run[0] = <<>>
             /\ \A k \in 1 .. Len(list) : run[k] = Placed(run[k - 1], list[k])
             /\ Sorted(list) = run[Len(list)]
<1> DEFINE n == Len(list)
           Body(r) == [k \in 0 .. n |-> IF k = 0 THEN <<>> ELSE Placed(r[k - 1], list[k])]
           step == [k \in 1 .. n |-> [sorted \in Seq(S) |-> Placed(sorted, list[k])]]
           run == CHOOSE r : r = Body(r)
<1>1. n \in Nat /\ \A k \in 1 .. n : list[k] \in S
  BY LenProperties, ElementOfSeq
<1>2. <<>> \in Seq(S)
  OBVIOUS
<1>3. ASSUME NEW k \in 1 .. n, NEW sorted \in Seq(S) PROVE Placed(sorted, list[k]) \in Seq(S)
  BY <1>1, PlacedOK
<1>4. step \in [1 .. n -> [Seq(S) -> Seq(S)]]
  BY <1>3
<1>5. PICK r : Iterates(r, n, Seq(S), <<>>, step)
  <2> HIDE DEF step, n
  <2> QED
    BY <1>1, <1>2, <1>4, Recursion
<1>6. r \in [0 .. n -> Seq(S)] /\ r[0] = <<>>
  BY <1>5 DEF Iterates
<1>7. ASSUME NEW k \in 1 .. n PROVE r[k] = Placed(r[k - 1], list[k])
  <2>1. k - 1 \in 0 .. n
    BY <1>1
  <2>2. r[k - 1] \in Seq(S)
    BY <1>6, <2>1
  <2>3. r[k] = step[k][r[k - 1]]
    BY <1>5 DEF Iterates
  <2> QED
    BY <2>2, <2>3
<1> HIDE DEF step
<1>8. r = Body(r)
  <2>1. ASSUME NEW k \in 0 .. n PROVE r[k] = Body(r)[k]
    <3>1. CASE k = 0
      BY <1>6, <3>1
    <3>2. CASE k # 0
      <4>1. k \in 1 .. n
        BY <1>1, <3>2
      <4> QED
        BY <1>7, <3>2, <4>1
    <3> QED
      BY <3>1, <3>2
  <2> QED
    BY <1>6, <2>1
<1>9. Sorted(list) = run[n]
  BY DEF Sorted
<1>10. run = Body(run)
  <2> HIDE DEF Body
  <2> QED
    BY <1>8
<1> HIDE DEF run
<1>11. run = [k \in 0 .. n |-> IF k = 0 THEN <<>> ELSE Placed(run[k - 1], list[k])]
  BY <1>10
<1> HIDE DEF Body
<1>12. run[0] = <<>> /\ \A k \in 1 .. n : run[k] = Placed(run[k - 1], list[k])
  BY <1>1, <1>11
<1> DEFINE T == {k \in 0 .. n : run[k] \in Seq(S)}
<1>13. 0 \in T
  <2>1. run[0] \in Seq(S)
    BY <1>2, <1>12, Zenon
  <2> QED
    BY <1>1, <2>1
<1>14. ASSUME NEW k \in 1 .. n, k - 1 \in T PROVE k \in T
  <2>1. run[k] \in Seq(S)
    BY <1>3, <1>12, <1>14
  <2> QED
    BY <1>1, <2>1
<1>15. 0 .. n \subseteq T
  <2> HIDE DEF T, n
  <2> QED
    BY <1>1, <1>13, <1>14, BoundedInduction
<1>16. run \in [0 .. n -> Seq(S)]
  <2>1. \A k \in 0 .. n : run[k] \in Seq(S)
    BY <1>15
  <2> QED
    BY <1>11, <2>1
<1> QED
  BY <1>9, <1>12, <1>16

\* The elements of a sorted list are those of the first k inserted, and the first of
\* them comes before all others.
FirstOf(sorted, list, k) ==
    /\ Len(sorted) = k
    /\ \A n \in 1 .. k : \E m \in 1 .. k : sorted[n] = list[m]
    /\ k > 0 => \A m \in 1 .. k : list[m] = sorted[1] \/ Before(sorted[1], list[m])

\* Inserting one more.
LEMMA FirstStep ==
    ASSUME TypeOK, Unambiguous, NEW list \in Seq(Issuers), NEW k \in 1 .. Len(list),
           \A m \in 1 .. Len(list) : list[m] \in Candidates(NoName),
           NEW sorted \in Seq(Issuers), FirstOf(sorted, list, k - 1)
    PROVE  FirstOf(Placed(sorted, list[k]), list, k)
<1> DEFINE C == Candidates(NoName)
           i == list[k]
           new == Placed(sorted, i)
<1>1. C \subseteq Issuers /\ Len(list) \in Nat /\ \A m \in 1 .. Len(list) : list[m] \in C
  BY CandidatesFinite, LenProperties
<1>2. /\ Len(sorted) = k - 1 /\ \A n \in 1 .. k - 1 : \E m \in 1 .. k - 1 : sorted[n] = list[m]
      /\ k - 1 > 0 => \A m \in 1 .. k - 1 : list[m] = sorted[1] \/ Before(sorted[1], list[m])
  BY DEF FirstOf
<1>3. i \in C /\ i \in Issuers /\ \A n \in 1 .. k - 1 : sorted[n] \in C
  <2>1. \A m \in 1 .. k - 1 : m \in 1 .. Len(list)
    BY <1>1
  <2> QED
    BY <1>1, <1>2, <2>1
<1>4. /\ Len(new) = Len(sorted) + 1
      /\ \A n \in 1 .. Len(new) :
            new[n] = i \/ \E m \in 1 .. Len(sorted) : new[n] = sorted[m]
      /\ \/ new[1] = i /\ \A n \in 1 .. Len(sorted) : Less(i, sorted[n])
         \/ \E n \in 1 .. Len(sorted) : new[1] = sorted[1] /\ ~ Less(i, sorted[n])
  <2>1. Inserted(new, sorted, i)
    BY <1>3, PlacedOK
  <2> QED
    BY <2>1 DEF Inserted
<1> HIDE DEF C, new, i
<1>5. (k - 1) + 1 = k /\ k \in 1 .. k /\ \A m \in 1 .. k : m \in 1 .. k - 1 \/ m = k
  BY <1>1
<1>6. Len(new) = k
  BY <1>2, <1>4, <1>5
<1>7. ASSUME NEW n \in 1 .. k PROVE \E m \in 1 .. k : new[n] = list[m]
  <2>1. CASE new[n] = i
    BY <1>5, <2>1 DEF i
  <2>2. CASE \E m \in 1 .. k - 1 : new[n] = sorted[m]
    <3>1. PICK l \in 1 .. k - 1 : new[n] = list[l]
      BY <1>2, <2>2
    <3>2. l \in 1 .. k
      BY <1>1
    <3> QED
      BY <3>1, <3>2
  <2> QED
    BY <1>2, <1>4, <1>6, <2>1, <2>2
<1>8. ASSUME NEW m \in 1 .. k PROVE list[m] = new[1] \/ Before(new[1], list[m])
  <2>1. CASE k - 1 = 0
    BY <1>1, <1>2, <1>4, <2>1 DEF i
  <2>2. CASE k - 1 # 0
    <3> DEFINE h == sorted[1]
    <3>1. 1 \in 1 .. k - 1 /\ k - 1 > 0
      BY <1>1, <2>2
    <3>2. h \in C /\ \A l \in 1 .. k - 1 : list[l] \in C /\ (list[l] = h \/ Before(h, list[l]))
      <4>1. h \in C
        BY <1>3, <3>1
      <4>2. ASSUME NEW l \in 1 .. k - 1 PROVE list[l] \in C /\ (list[l] = h \/ Before(h, list[l]))
        <5>1. l \in 1 .. Len(list)
          BY <1>1
        <5> QED
          BY <1>1, <1>2, <3>1, <5>1
      <4> QED
        BY <4>1, <4>2
    <3> HIDE DEF h
    <3>3. CASE new[1] = i /\ \A n \in 1 .. k - 1 : Less(i, sorted[n])
      <4>1. Less(i, h)
        BY <3>1, <3>3 DEF h
      <4>2. i = h \/ Before(i, h)
        BY <1>3, <3>2, <4>1, BeforeTotal DEF C, Before
      <4>3. CASE m \in 1 .. k - 1
        BY <1>1, <1>3, <3>2, <3>3, <4>2, <4>3, BeforeTransitive DEF C
      <4> QED
        BY <1>5, <3>3, <4>3 DEF i
    <3>4. ASSUME NEW n \in 1 .. k - 1, new[1] = h, ~ Less(i, sorted[n])
          PROVE  list[m] = new[1] \/ Before(new[1], list[m])
      <4>1. sorted[n] \in C /\ (sorted[n] = h \/ Before(h, sorted[n]))
        BY <1>2, <1>3, <3>2
      <4>2. i = sorted[n] \/ Before(sorted[n], i)
        BY <1>3, <3>4, <4>1, BeforeTotal DEF C, Before
      <4>3. i = h \/ Before(h, i)
        BY <1>1, <1>3, <3>2, <4>1, <4>2, BeforeTransitive DEF C
      <4> QED
        BY <1>5, <3>2, <3>4, <4>3 DEF i
    <3> QED
      BY <1>2, <1>4, <3>3, <3>4 DEF h
  <2> QED
    BY <2>1, <2>2
<1> QED
  BY <1>6, <1>7, <1>8 DEF FirstOf, new, i

\* The first element of a sorted list comes before all others of the list.
LEMMA SortedFirst ==
    ASSUME TypeOK, Unambiguous, NEW list \in Seq(Issuers),
           \A m \in 1 .. Len(list) : list[m] \in Candidates(NoName)
    PROVE  FirstOf(Sorted(list), list, Len(list))
<1> DEFINE n == Len(list)
<1>1. PICK run \in [0 .. n -> Seq(Issuers)] :
         /\ run[0] = <<>>
         /\ \A k \in 1 .. n : run[k] = Placed(run[k - 1], list[k])
         /\ Sorted(list) = run[n]
  BY SortedRuns
<1>2. n \in Nat
  BY LenProperties
<1> DEFINE T == {k \in 0 .. n : FirstOf(run[k], list, k)}
<1>3. 0 \in T
  <2>1. FirstOf(<<>>, list, 0)
    BY DEF FirstOf
  <2>2. FirstOf(run[0], list, 0)
    BY <1>1, <2>1, Zenon
  <2> QED
    BY <1>2, <2>2
<1>4. ASSUME NEW k \in 1 .. n, k - 1 \in T PROVE k \in T
  <2>1. k - 1 \in 0 .. n /\ k \in 0 .. n
    BY <1>2
  <2>2. run[k - 1] \in Seq(Issuers) /\ FirstOf(run[k - 1], list, k - 1)
    BY <1>4, <2>1
  <2>3. FirstOf(Placed(run[k - 1], list[k]), list, k)
    BY <2>2, FirstStep
  <2> QED
    BY <1>1, <2>1, <2>3
<1>5. 0 .. n \subseteq T
  <2> HIDE DEF T, n
  <2> QED
    BY <1>2, <1>3, <1>4, BoundedInduction
<1>6. n \in T
  BY <1>2, <1>5
<1> QED
  BY <1>1, <1>6

\* The newest of the candidates with the lowest number.
Best == {i \in Candidates(NoName) :
            \A j \in Candidates(NoName) \ {i} :
                \/ Prio(i) < Prio(j)
                \/ Prio(i) = Prio(j) /\ ccache[i].created > ccache[j].created}

\* Such a candidate is the one that comes before all others.
LEMMA BestIsFirst ==
    ASSUME TypeOK, Unambiguous, NEW i \in Candidates(NoName)
    PROVE  i \in Best <=> \A j \in Candidates(NoName) \ {i} : Before(i, j)
<1>1. ASSUME NEW j \in Candidates(NoName) \ {i}
      PROVE  \/ Prio(i) < Prio(j)
             \/ Prio(i) = Prio(j) /\ ccache[i].created > ccache[j].created
             <=> Before(i, j)
  <2>1. /\ Prio(i) \in Int /\ ccache[i].created \in Nat
        /\ Prio(j) \in Int /\ ccache[j].created \in Nat
    BY CandidatesFinite, PrioType
  <2>2. Before(i, j) \/ Before(j, i)
    BY BeforeTotal
  <2> QED
    BY <2>1, <2>2 DEF Before, Less
<1> QED
  BY <1>1 DEF Best

\* The orders in which a lister may answer: every candidate once.
LEMMA Listings ==
    ASSUME NEW S
    PROVE  Lists!SetToSeqs(S) = {f \in [1 .. Cardinality(S) -> S] :
              \A k, l \in 1 .. Cardinality(S) : k # l => f[k] # f[l]}
<1>1. Lists!Cardinality(S) = Cardinality(S)
  BY Zenon DEF Lists!Cardinality, Cardinality
<1> QED
  BY <1>1 DEF Lists!SetToSeqs

\* In every order of the candidates.
LEMMA ListingFirst ==
    ASSUME TypeOK, Unambiguous, Candidates(NoName) # {},
           NEW list \in Lists!SetToSeqs(Candidates(NoName))
    PROVE  Best = {Sorted(list)[1]}
<1> DEFINE C == Candidates(NoName)
           n == Cardinality(C)
           first == Sorted(list)[1]
<1>1. IsFiniteSet(C) /\ C \subseteq Issuers /\ n \in Nat /\ n # 0
  BY CandidatesFinite, FS_CardinalityType, FS_EmptySet
<1>2. list \in [1 .. n -> C] /\ \A k, l \in 1 .. n : k # l => list[k] # list[l]
  BY Listings
<1>3. \A i \in C : \E k \in 1 .. n : list[k] = i
  <2>1. list \in Injection(1 .. n, C)
    BY <1>2 DEF Injection, IsInjective
  <2>2. IsFiniteSet(1 .. n) /\ Cardinality(1 .. n) = n
    BY <1>1, FS_Interval
  <2>3. list \in Surjection(1 .. n, C)
    BY <1>1, <2>1, <2>2, FS_Injection
  <2> QED
    BY <2>3 DEF Surjection
<1>4. list \in Seq(Issuers) /\ Len(list) = n
  <2>1. list \in [1 .. n -> Issuers]
    BY <1>1, <1>2
  <2> QED
    BY <1>1, <2>1
<1>5. FirstOf(Sorted(list), list, n)
  BY <1>2, <1>4, SortedFirst
<1>6. first \in C /\ \A j \in C : j = first \/ Before(first, j)
  <2>1. n > 0 /\ 1 \in 1 .. n
    BY <1>1
  <2>2. /\ \E m \in 1 .. n : first = list[m]
        /\ \A m \in 1 .. n : list[m] = first \/ Before(first, list[m])
    BY <1>5, <2>1 DEF FirstOf
  <2> HIDE DEF first, n, C
  <2> QED
    BY <1>2, <1>3, <2>2
<1> HIDE DEF first
<1>7. first \in Best
  BY <1>6, BestIsFirst
<1>8. ASSUME NEW i \in Best PROVE i = first
  <2>1. i \in C /\ (i # first => Before(i, first))
    BY <1>6, BestIsFirst DEF Best
  <2> QED
    BY <1>6, <2>1 DEF Before
<1> QED
  BY <1>7, <1>8 DEF first

\* However users edit the issuers and whatever the caches show, the choice does not
\* depend on the order in which the lister answers: as long as number and age do not
\* contradict each other, sort.Slice puts the newest issuer with the lowest number
\* first, and IssuerForObject gives every sync of a Route the same account.
THEOREM StableChoiceHolds == Spec => []StableChoice
<1>1. TypeOK => StableChoice
  <2> SUFFICES ASSUME TypeOK, Unambiguous PROVE Chosen(NoName) = Best
    BY DEF StableChoice, Best
  <2> DEFINE C == Candidates(NoName)
  <2>1. CASE C = {}
    BY <2>1 DEF Chosen, Best
  <2>2. CASE C # {}
    <3>1. PICK list : list \in Lists!SetToSeqs(C)
      <4>1. PICK f : f \in Bijection(1 .. Cardinality(C), C)
        BY CandidatesFinite, FS_CardinalityType DEF ExistsBijection
      <4> QED
        BY <4>1, Listings DEF Bijection, Injection, IsInjective
    <3>2. \A l \in Lists!SetToSeqs(C) : Best = {Sorted(l)[1]}
      BY <2>2, ListingFirst
    <3>3. Chosen(NoName) = {Sorted(l)[1] : l \in Lists!SetToSeqs(C)}
      BY <2>2 DEF Chosen
    <3> QED
      BY <3>1, <3>2, <3>3
  <2> QED
    BY <2>1, <2>2
<1> QED
  BY <1>1, TypeCorrect, PTL
=============================================================================
