------------------------- MODULE Deployment_proofs -------------------------
(***************************************************************************)
(* The properties of Deployment for every set of processes, networks,      *)
(* packages and stores: types, keys, configurations, what is reported, and *)
(* the refinement of ControllerConfig.                                     *)
(***************************************************************************)
EXTENDS Deployment, NumberFacts

---------------------------------------------------------------------------
(* Configurations *)

LEMMA ConfigFacts ==
  /\ NoConfig \in Config
  /\ Whole(NoConfig)
  /\ \A c \in Config : \A era \in Eras : \A r \in Recipients \cup {NoRecipient} :
       Configured(c, era, r) \in Config
<1>1. NoConfig \in Config
  BY DEF NoConfig, Config
<1>2. Whole(NoConfig)
  BY DEF Whole, Unwritten, NoConfig, Keys
<1>3. ASSUME NEW c \in Config, NEW era \in Eras, NEW r \in Recipients \cup {NoRecipient}
      PROVE  Configured(c, era, r) \in Config
  <2>1. \A k \in Keys : k[2] \in Symbols
    BY DEF Keys
  <2> DEFINE w == [k \in Keys |-> IF k[1] = era THEN weights_for(k[2]) ELSE c.weights[k]]
             f == [k \in Keys |-> IF k[1] = era THEN fees_for(k[2]) ELSE c.fees[k]]
             Ws == {Zero} \cup {weights_for(s) : s \in Symbols}
             Fs == {Zero} \cup {fees_for(s) : s \in Symbols}
  <2>2. c.weights \in [Keys -> Ws] /\ c.fees \in [Keys -> Fs]
    BY DEF Config
  <2>3. \A k \in Keys : weights_for(k[2]) \in Ws /\ fees_for(k[2]) \in Fs
    BY <2>1
  <2> HIDE DEF Ws, Fs
  <2>4. w \in [Keys -> Ws] /\ f \in [Keys -> Fs]
    BY <2>2, <2>3
  <2>5. Configured(c, era, r) = [weights |-> w, fees |-> f, recipient |-> r]
    BY DEF Configured
  <2>6. Config = [weights : [Keys -> Ws], fees : [Keys -> Fs],
                  recipient : Recipients \cup {NoRecipient}]
    BY DEF Config, Ws, Fs
  <2> HIDE DEF w, f
  <2> QED
    BY <2>4, <2>5, <2>6
<1> QED
  BY <1>1, <1>2, <1>3

\* One admin script writes its era whole and leaves the other eras as they are.
LEMMA ConfiguredFacts ==
  ASSUME NEW c, NEW era \in Eras, NEW r
  PROVE  /\ Written(Configured(c, era, r), era)
         /\ \A e \in Eras \ {era} :
              /\ Written(Configured(c, era, r), e) <=> Written(c, e)
              /\ Unwritten(Configured(c, era, r), e) <=> Unwritten(c, e)
         /\ Configured(c, era, r).recipient = r
<1> DEFINE d == Configured(c, era, r)
<1>1. \A s \in Symbols : d.weights[<<era, s>>] = weights_for(s) /\ d.fees[<<era, s>>] = fees_for(s)
  BY DEF Configured, Keys
<1>2. \A e \in Eras \ {era} : \A s \in Symbols :
        d.weights[<<e, s>>] = c.weights[<<e, s>>] /\ d.fees[<<e, s>>] = c.fees[<<e, s>>]
  BY DEF Configured, Keys
<1>3. d.recipient = r
  BY DEF Configured
<1> HIDE DEF d
<1>4. Written(d, era)
  BY <1>1 DEF Written
<1>5. \A e \in Eras \ {era} :
        (Written(d, e) <=> Written(c, e)) /\ (Unwritten(d, e) <=> Unwritten(c, e))
  BY <1>2 DEF Written, Unwritten
<1> QED
  BY <1>3, <1>4, <1>5 DEF d

LEMMA WholePreserved ==
  ASSUME NEW c, Whole(c), NEW era \in Eras, NEW r,
         r = NoRecipient => era = "m1" /\ c.recipient = NoRecipient
  PROVE  Whole(Configured(c, era, r))
<1> DEFINE d == Configured(c, era, r)
<1>1. /\ Written(d, era)
      /\ \A e \in Eras \ {era} :
           (Written(d, e) <=> Written(c, e)) /\ (Unwritten(d, e) <=> Unwritten(c, e))
      /\ d.recipient = r
  BY ConfiguredFacts
<1> HIDE DEF d
<1>2. \A e \in Eras : Written(d, e) \/ Unwritten(d, e)
  BY <1>1 DEF Whole
<1>3. d.recipient = NoRecipient => \A e \in Eras \ {"m1"} : Unwritten(d, e)
  BY <1>1 DEF Whole
<1> QED
  BY <1>2, <1>3 DEF Whole, d

---------------------------------------------------------------------------
(* Processes and their transactions *)

LEMMA JobFacts ==
  ASSUME NEW j \in Jobs
  PROVE  /\ Account(j) \in Deploys
         /\ \/ j[1] = "deploy" /\ j[2] \in Deploys /\ j = <<"deploy", j[2]>> /\ Account(j) = j[2]
            \/ j[1] = "init" /\ j[2] \in Inits /\ Account(j) = Target[j[2]]
                 /\ Account(j) \in Controllers
            \/ j[1] = "mint" /\ j[2] \in Mints /\ Account(j) = Faucet[j[2]]
                 /\ Account(j) \in Faucets
<1>1. CASE \E d \in Deploys : j = <<"deploy", d>>
  BY <1>1 DEF Account
<1>2. CASE \E i \in Inits : j = <<"init", i>>
  BY <1>2, DeploymentAssumption DEF Account, Controllers
<1>3. CASE \E m \in Mints : j = <<"mint", m>>
  BY <1>3, DeploymentAssumption DEF Account, Faucets
<1> QED
  BY <1>1, <1>2, <1>3 DEF Jobs

\* The configuration after an init process's transaction, by its binary.
LEMMA InitConfig ==
  ASSUME NEW j \in Jobs, j[1] = "init", NEW s
  PROVE  \/ Final(j, s).config = Configured(s.config, "m1", s.config.recipient)
              /\ Era(j[2]) = "m1"
         \/ \E r \in Recipients :
              Final(j, s).config = Configured(s.config, Era(j[2]), r)
                /\ Era(j[2]) \in Eras \ {"m1"}
<1> DEFINE i == j[2]
<1>1. i \in Inits
  BY JobFacts
<1>2. Final(j, s).config = Configured(s.config, Era(i),
                              IF InitTool[i] = "deploy_v6_init"
                              THEN fee_recipient(i) ELSE s.config.recipient)
  BY DEF Final
<1>3. CASE InitTool[i] = "deploy_v5_init"
  <2>1. Era(i) = "m1" /\ InitTool[i] # "deploy_v6_init"
    BY <1>3 DEF Era
  <2> QED
    BY <1>2, <2>1
<1>4. CASE InitTool[i] = "deploy_v6_init"
  <2>1. Era(i) \in {"testnet", "devnet"}
    BY <1>4 DEF Era
  <2>2. fee_recipient(i) \in Recipients
    BY <1>1, <2>1, DeploymentAssumption DEF fee_recipient
  <2> HIDE DEF i
  <2>3. Era(i) \in Eras \ {"m1"}
    BY <2>1 DEF Eras
  <2> QED
    BY <1>2, <1>4, <2>2, <2>3 DEF i
<1> QED
  BY <1>1, <1>3, <1>4, DeploymentAssumption

LEMMA FinalFacts ==
  ASSUME NEW j \in Jobs, NEW s \in AccountState, Executes(j, s)
  PROVE  /\ Final(j, s) \in AccountState
         /\ Final(j, s).nonce = s.nonce + 1
         /\ Whole(s.config) => Whole(Final(j, s).config)
         /\ j[1] # "init" => Final(j, s).config = s.config
         /\ j[1] = "init" => Written(Final(j, s).config, Era(j[2]))
         /\ \A era \in Eras : Written(s.config, era) => Written(Final(j, s).config, era)
<1> DEFINE t == Final(j, s)
<1>1. s.nonce \in Nat /\ s.config \in Config /\ s.issued \in 0..MaxSupply
  BY DEF AccountState
<1>2. t.nonce = s.nonce + 1
  BY DEF Final
<1>3. t.issued \in 0..MaxSupply
  <2>1. CASE j[1] = "mint"
    <3>1. j[2] \in Mints /\ Amount[j[2]] \in Nat
      BY <2>1, JobFacts, DeploymentAssumption
    <3>2. s.issued + Amount[j[2]] <= MaxSupply
      BY <2>1 DEF Executes
    <3>3. t.issued = s.issued + Amount[j[2]]
      BY <2>1 DEF Final
    <3> QED
      BY <1>1, <3>1, <3>2, <3>3, DeploymentAssumption
  <2>2. CASE j[1] # "mint"
    <3>1. t.issued = s.issued + 0
      BY <2>2 DEF Final
    <3> QED
      BY <1>1, <3>1, DeploymentAssumption
  <2> QED
    BY <2>1, <2>2
<1>4. /\ t.config \in Config
      /\ Whole(s.config) => Whole(t.config)
      /\ j[1] # "init" => t.config = s.config
      /\ j[1] = "init" => Written(t.config, Era(j[2]))
      /\ \A era \in Eras : Written(s.config, era) => Written(t.config, era)
  <2>1. CASE j[1] # "init"
    <3>1. t.config = s.config
      BY <2>1 DEF Final
    <3> QED
      BY <1>1, <2>1, <3>1
  <2>2. CASE j[1] = "init"
    <3>1. ASSUME NEW era \in Eras, NEW r \in Recipients \cup {NoRecipient},
                 t.config = Configured(s.config, era, r), Era(j[2]) = era,
                 r = NoRecipient => era = "m1" /\ s.config.recipient = NoRecipient
          PROVE  /\ t.config \in Config
                 /\ Whole(s.config) => Whole(t.config)
                 /\ Written(t.config, Era(j[2]))
                 /\ \A e \in Eras : Written(s.config, e) => Written(t.config, e)
      <4>1. t.config \in Config
        BY <1>1, <3>1, ConfigFacts
      <4>2. Whole(s.config) => Whole(t.config)
        BY <3>1, WholePreserved
      <4>3. /\ Written(t.config, era)
            /\ \A e \in Eras \ {era} : Written(t.config, e) <=> Written(s.config, e)
        BY <3>1, ConfiguredFacts
      <4> QED
        BY <3>1, <4>1, <4>2, <4>3
    <3>2. s.config.recipient \in Recipients \cup {NoRecipient}
      BY <1>1 DEF Config
    <3>3. \E era \in Eras, r \in Recipients \cup {NoRecipient} :
            /\ t.config = Configured(s.config, era, r) /\ Era(j[2]) = era
            /\ r = NoRecipient => era = "m1" /\ s.config.recipient = NoRecipient
      <4>1. CASE t.config = Configured(s.config, "m1", s.config.recipient)
                   /\ Era(j[2]) = "m1"
        BY <3>2, <4>1 DEF Eras
      <4>2. CASE \E r \in Recipients :
                   t.config = Configured(s.config, Era(j[2]), r) /\ Era(j[2]) \in Eras \ {"m1"}
        BY <4>2, RecipientsAssumption
      <4> QED
        BY <2>2, <4>1, <4>2, InitConfig
    <3> QED
      BY <2>2, <3>1, <3>3
  <2> QED
    BY <2>1, <2>2
<1>5. t = [nonce |-> t.nonce, config |-> t.config, issued |-> t.issued]
  BY DEF Final
<1> HIDE DEF t
<1>6. t \in AccountState
  BY <1>1, <1>2, <1>3, <1>4, <1>5 DEF AccountState
<1> QED
  BY <1>2, <1>4, <1>6 DEF t

---------------------------------------------------------------------------
(* The invariant *)

Signed(a) == Tool[a] \in SignedTools

\* An account that has made no transaction has no configuration.
GoodState == {s \in AccountState : s.nonce = 0 => s.config = NoConfig /\ s.issued = 0}

Types ==
  /\ chain \in [Deploys -> SUBSET GoodState]
  /\ store \in [Deploys -> SUBSET GoodState]
  /\ keys \subseteq {d \in Deploys : Signed(d)}
  /\ minted \subseteq {MintNote(m) : m \in Mints}
  /\ job \in [Jobs -> [phase : Phases, tx : SUBSET GoodState]]
  /\ traffic \in 0..MaxTraffic

\* The node has one state of an account.
OneState == \A a \in Deploys : \A s, t \in chain[a] : s = t

Keyed ==
  /\ \A d \in Deploys : job[<<"deploy", d>>].phase = "keyed" => d \in keys
  /\ \A j \in Jobs : job[j].tx # {} /\ Signed(Account(j)) => Account(j) \in keys

\* What a process submits has been executed.
Executable == \A j \in Jobs : \A s \in job[j].tx : Executes(j, s)

\* What DoneIsTrue says, from the submission on.
Lasting(j) ==
  /\ j[1] = "init" => \E s \in chain[Account(j)] : Written(s.config, Era(j[2]))
  /\ j[1] = "mint" => MintNote(j[2]) \in minted
  /\ j[1] = "deploy" => (Tool[j[2]] \in NetworkTools => chain[j[2]] # {})

Reported == \A j \in Jobs : job[j].phase \in {"submitted", "done"} => Lasting(j)

Inv ==
  /\ Types /\ OneState /\ Keyed /\ Executable
  /\ KeyBeforeAccount /\ Reported /\ ConfigWhole

LEMMA ToolsApart == SignedTools \cap NetworkTools = {}
BY DEF SignedTools, NetworkTools

LEMMA FreshGood == Fresh \in GoodState
<1>1. Fresh.nonce = 0 /\ Fresh.config = NoConfig /\ Fresh.issued = 0
  BY DEF Fresh
<1>2. Fresh = [nonce |-> 0, config |-> NoConfig, issued |-> 0]
  BY DEF Fresh
<1>3. 0 \in 0..MaxSupply
  BY DeploymentAssumption
<1>4. Fresh \in AccountState
  BY <1>2, <1>3, ConfigFacts DEF AccountState
<1> QED
  BY <1>1, <1>4 DEF GoodState

LEMMA FinalGood ==
  ASSUME NEW j \in Jobs, NEW s \in GoodState, Executes(j, s)
  PROVE  Final(j, s) \in GoodState
<1>1. s \in AccountState /\ s.nonce \in Nat
  BY DEF GoodState, AccountState
<1>2. Final(j, s) \in AccountState /\ Final(j, s).nonce = s.nonce + 1
  BY <1>1, FinalFacts
<1>3. Final(j, s).nonce # 0
  BY <1>1, <1>2
<1> QED
  BY <1>2, <1>3 DEF GoodState

LEMMA SyncedFacts ==
  ASSUME Types, KeyBeforeAccount
  PROVE  /\ Synced \in [Deploys -> SUBSET GoodState]
         /\ \A a \in Deploys : Synced[a] # {} /\ Signed(a) => a \in keys
<1>1. \A a \in Deploys : Synced[a] = store[a] \/ Synced[a] = chain[a]
  BY DEF Synced
<1>2. DOMAIN Synced = Deploys
  BY DEF Synced
<1>3. Synced \in [Deploys -> SUBSET GoodState]
  <2>1. Synced = [a \in Deploys |-> Synced[a]]
    BY DEF Synced
  <2>2. \A a \in Deploys : Synced[a] \in SUBSET GoodState
    BY <1>1 DEF Types
  <2> QED
    BY <2>1, <2>2
<1>4. \A a \in Deploys : Synced[a] # {} /\ Signed(a) => a \in keys
  BY <1>1 DEF KeyBeforeAccount, Signed
<1> QED
  BY <1>3, <1>4

LEMMA InvInit == Init => Inv
<1> SUFFICES ASSUME Init PROVE Inv
  OBVIOUS
<1>1. \A j \in Jobs : job[j].phase = "start" /\ job[j].tx = {}
  BY DEF Init, NoTx
<1>2. \A a \in Deploys : chain[a] = {} /\ store[a] = {}
  BY DEF Init
<1>3. Types
  BY DeploymentAssumption DEF Init, Types, Phases, NoTx
<1>4. \A d \in Deploys : <<"deploy", d>> \in Jobs
  BY DEF Jobs
<1>5. Keyed
  BY <1>1, <1>4 DEF Keyed
<1>6. OneState /\ Executable /\ KeyBeforeAccount /\ Reported /\ ConfigWhole
  BY <1>1, <1>2 DEF OneState, Executable, KeyBeforeAccount, Reported, ConfigWhole, Controllers
<1> QED
  BY <1>3, <1>5, <1>6 DEF Inv

---------------------------------------------------------------------------
(* Steps that leave the chain alone *)

\* Two ways to write an assignment to a phase.
LEMMA PhaseStep ==
  ASSUME Types, NEW j \in Jobs, NEW p
  PROVE  [job EXCEPT ![j].phase = p] = [job EXCEPT ![j] = [phase |-> p, tx |-> job[j].tx]]
<1>1. job[j] \in [phase : Phases, tx : SUBSET GoodState]
  BY DEF Types
<1>2. [job[j] EXCEPT !.phase = p] = [phase |-> p, tx |-> job[j].tx]
  BY <1>1
<1> QED
  BY <1>2

\* Only the phase of one process and its transaction change, and the stores.
LEMMA LocalStep ==
  ASSUME Inv, NEW j \in Jobs,
         chain' = chain, minted' = minted, traffic' = traffic,
         keys \subseteq keys', keys' \subseteq {d \in Deploys : Signed(d)},
         store' \in [Deploys -> SUBSET GoodState],
         \A a \in Deploys : store'[a] # {} /\ Signed(a) => a \in keys',
         NEW p \in Phases, NEW tx \in SUBSET GoodState,
         job' = [job EXCEPT ![j] = [phase |-> p, tx |-> tx]],
         p = "keyed" => j[1] = "deploy" /\ Account(j) \in keys',
         tx # {} /\ Signed(Account(j)) => Account(j) \in keys',
         \A s \in tx : Executes(j, s)',
         p \in {"submitted", "done"} => Lasting(j)
  PROVE  Inv'
<1>1. Types'
  BY DEF Inv, Types
<1>2. job'[j] = [phase |-> p, tx |-> tx] /\ \A k \in Jobs \ {j} : job'[k] = job[k]
  BY DEF Inv, Types
<1>3. OneState' /\ ConfigWhole'
  BY DEF Inv, OneState, ConfigWhole
<1>4. Keyed'
  <2>1. ASSUME NEW d \in Deploys, job'[<<"deploy", d>>].phase = "keyed"
        PROVE  d \in keys'
    <3>1. <<"deploy", d>> \in Jobs /\ Account(<<"deploy", d>>) = d
      BY DEF Jobs, Account
    <3>2. CASE <<"deploy", d>> = j
      BY <1>2, <2>1, <3>1, <3>2
    <3>3. CASE <<"deploy", d>> # j
      BY <1>2, <2>1, <3>1, <3>3 DEF Inv, Keyed
    <3> QED
      BY <3>2, <3>3
  <2>2. ASSUME NEW k \in Jobs, job'[k].tx # {}, Signed(Account(k))
        PROVE  Account(k) \in keys'
    BY <1>2, <2>2 DEF Inv, Keyed
  <2> QED
    BY <2>1, <2>2 DEF Keyed
<1>5. Executable'
  <2> SUFFICES ASSUME NEW k \in Jobs, NEW s \in job'[k].tx
               PROVE  Executes(k, s)'
    BY DEF Executable
  <2>1. CASE k = j
    BY <1>2, <2>1
  <2>2. CASE k # j
    <3>1. Executes(k, s)
      BY <1>2, <2>2 DEF Inv, Executable
    <3>2. k[1] \in {"deploy", "init", "mint"}
      BY JobFacts
    <3> QED
      BY <3>1, <3>2 DEF Executes
  <2> QED
    BY <2>1, <2>2
<1>6. KeyBeforeAccount'
  BY DEF Inv, KeyBeforeAccount, Signed
<1>7. Reported'
  <2>1. \A k \in Jobs : Lasting(k) => Lasting(k)'
    BY DEF Lasting
  <2>2. \A k \in Jobs : job'[k].phase \in {"submitted", "done"} => Lasting(k)
    BY <1>2 DEF Inv, Reported
  <2> QED
    BY <2>1, <2>2 DEF Reported
<1> QED
  BY <1>1, <1>3, <1>4, <1>5, <1>6, <1>7 DEF Inv

LEMMA InvDeployBuild ==
  ASSUME Inv, NEW d \in Deploys, DeployBuild(d)
  PROVE  Inv'
<1> DEFINE j == <<"deploy", d>>
<1>1. j \in Jobs
  BY DEF Jobs
<1>2. job[j].tx \in SUBSET GoodState /\ "built" \in Phases
  BY <1>1 DEF Inv, Types, Phases
<1>3. job' = [job EXCEPT ![j] = [phase |-> "built", tx |-> job[j].tx]]
  BY <1>1, PhaseStep DEF DeployBuild, Inv
<1>4. job[j].tx # {} /\ Signed(Account(j)) => Account(j) \in keys
  BY <1>1 DEF Inv, Keyed
<1>5. \A s \in job[j].tx : Executes(j, s)'
  BY <1>1 DEF Inv, Executable, DeployBuild, Executes
<1>6. /\ \A a \in Deploys : store'[a] # {} /\ Signed(a) => a \in keys'
      /\ store' \in [Deploys -> SUBSET GoodState]
      /\ keys' = keys /\ keys' \subseteq {e \in Deploys : Signed(e)}
      /\ chain' = chain /\ minted' = minted /\ traffic' = traffic
  BY DEF DeployBuild, Inv, KeyBeforeAccount, Signed, Types
<1> HIDE DEF j
<1> QED
  BY <1>1, <1>2, <1>3, <1>4, <1>5, <1>6, LocalStep

LEMMA InvDeployAddKey ==
  ASSUME Inv, NEW d \in Deploys, DeployAddKey(d)
  PROVE  Inv'
<1> DEFINE j == <<"deploy", d>>
<1>1. j \in Jobs /\ j[1] = "deploy" /\ Account(j) = d /\ Signed(d)
  BY DEF Jobs, Account, DeployAddKey, Signed
<1>2. job[j].tx \in SUBSET GoodState /\ "keyed" \in Phases
  BY <1>1 DEF Inv, Types, Phases
<1>3. job' = [job EXCEPT ![j] = [phase |-> "keyed", tx |-> job[j].tx]]
  BY <1>1, PhaseStep DEF DeployAddKey, Inv
<1>4. /\ keys' = keys \cup {d} /\ keys' \subseteq {e \in Deploys : Signed(e)}
      /\ chain' = chain /\ minted' = minted /\ traffic' = traffic
  BY <1>1 DEF DeployAddKey, Inv, Types
<1>5. \A s \in job[j].tx : Executes(j, s)'
  BY <1>1 DEF Executes
<1>6. /\ store' \in [Deploys -> SUBSET GoodState]
      /\ \A a \in Deploys : store'[a] # {} /\ Signed(a) => a \in keys'
  <2>1. store' = store \/ store' = Synced
    BY DEF DeployAddKey
  <2>2. /\ Synced \in [Deploys -> SUBSET GoodState]
        /\ \A a \in Deploys : Synced[a] # {} /\ Signed(a) => a \in keys
    BY SyncedFacts DEF Inv
  <2>3. \A a \in Deploys : store[a] # {} /\ Signed(a) => a \in keys
    BY DEF Inv, KeyBeforeAccount, Signed
  <2> QED
    BY <1>4, <2>1, <2>2, <2>3 DEF Inv, Types
<1> HIDE DEF j
<1> QED
  BY <1>1, <1>2, <1>3, <1>4, <1>5, <1>6, LocalStep

LEMMA InvDeployAddAccount ==
  ASSUME Inv, NEW d \in Deploys, DeployAddAccount(d)
  PROVE  Inv'
<1> DEFINE j == <<"deploy", d>>
           p == IF Signed(d) THEN "done" ELSE "added"
<1>1. j \in Jobs /\ j[1] = "deploy" /\ j[2] = d /\ Account(j) = d
  BY DEF Jobs, Account
<1>2. job[j].tx \in SUBSET GoodState /\ p \in Phases
  BY <1>1 DEF Inv, Types, Phases
<1>3. job' = [job EXCEPT ![j] = [phase |-> p, tx |-> job[j].tx]]
  BY <1>1, PhaseStep DEF DeployAddAccount, Inv, Signed
<1>4. /\ keys' = keys /\ keys' \subseteq {e \in Deploys : Signed(e)}
      /\ chain' = chain /\ minted' = minted /\ traffic' = traffic
  BY DEF DeployAddAccount, Inv, Types
<1>5. /\ \A s \in job[j].tx : Executes(j, s)'
      /\ job[j].tx # {} /\ Signed(Account(j)) => Account(j) \in keys'
  BY <1>1, <1>4 DEF Executes, Inv, Keyed
<1>6. Signed(d) => d \in keys
  BY DEF DeployAddAccount, Signed, Inv, Keyed
<1>7. p \in {"submitted", "done"} => Lasting(j)
  BY <1>1, ToolsApart DEF Lasting, Signed
<1>8. /\ store' \in [Deploys -> SUBSET GoodState]
      /\ \A a \in Deploys : store'[a] # {} /\ Signed(a) => a \in keys'
  <2>1. PICK base : /\ base = store \/ base = Synced
                    /\ store' = [base EXCEPT ![d] = {Fresh}]
    BY DEF DeployAddAccount
  <2>2. /\ base \in [Deploys -> SUBSET GoodState]
        /\ \A a \in Deploys : base[a] # {} /\ Signed(a) => a \in keys
    <3>1. /\ store \in [Deploys -> SUBSET GoodState]
          /\ \A a \in Deploys : store[a] # {} /\ Signed(a) => a \in keys
      BY DEF Inv, Types, KeyBeforeAccount, Signed
    <3>2. /\ Synced \in [Deploys -> SUBSET GoodState]
          /\ \A a \in Deploys : Synced[a] # {} /\ Signed(a) => a \in keys
      BY SyncedFacts DEF Inv
    <3> QED
      BY <2>1, <3>1, <3>2
  <2> QED
    BY <1>4, <1>6, <2>1, <2>2, FreshGood
<1> HIDE DEF j, p
<1>9. p = "keyed" => FALSE
  BY DEF p
<1> QED
  BY <1>1, <1>2, <1>3, <1>4, <1>5, <1>7, <1>8, <1>9, LocalStep

LEMMA InvJobExecute ==
  ASSUME Inv, NEW j \in Jobs, JobExecute(j)
  PROVE  Inv'
<1> DEFINE local == IF j[1] = "deploy" THEN store ELSE Synced
<1>1. Account(j) \in Deploys
  BY JobFacts
<1>2. PICK s \in local[Account(j)] :
        /\ Executes(j, s)
        /\ job' = [job EXCEPT ![j] = [phase |-> "executed", tx |-> {s}]]
  BY DEF JobExecute
<1>3. /\ local \in [Deploys -> SUBSET GoodState]
      /\ \A a \in Deploys : local[a] # {} /\ Signed(a) => a \in keys
  <2>1. /\ store \in [Deploys -> SUBSET GoodState]
        /\ \A a \in Deploys : store[a] # {} /\ Signed(a) => a \in keys
    BY DEF Inv, Types, KeyBeforeAccount, Signed
  <2>2. /\ Synced \in [Deploys -> SUBSET GoodState]
        /\ \A a \in Deploys : Synced[a] # {} /\ Signed(a) => a \in keys
    BY SyncedFacts DEF Inv
  <2> QED
    BY <2>1, <2>2
<1>4. store' = local
  BY DEF JobExecute
<1> HIDE DEF local
<1>5. {s} \in SUBSET GoodState /\ (Signed(Account(j)) => Account(j) \in keys)
  BY <1>1, <1>2, <1>3
<1>6. /\ keys' = keys /\ keys' \subseteq {e \in Deploys : Signed(e)}
      /\ chain' = chain /\ minted' = minted /\ traffic' = traffic
  BY DEF JobExecute, Inv, Types
<1>7. \A t \in {s} : Executes(j, t)'
  BY <1>2, <1>6 DEF Executes
<1>8. "executed" \in Phases
  BY DEF Phases
<1> QED
  BY <1>2, <1>3, <1>4, <1>5, <1>6, <1>7, <1>8, LocalStep

LEMMA InvJobApply ==
  ASSUME Inv, NEW j \in Jobs, JobApply(j)
  PROVE  Inv'
<1> DEFINE a == Account(j)
<1>1. a \in Deploys
  BY JobFacts
<1>2. PICK s \in job[j].tx :
        store' = [store EXCEPT ![a] =
                    IF \E t \in store[a] : t.nonce > s.nonce THEN @ ELSE {Final(j, s)}]
  BY DEF JobApply
<1>3. s \in GoodState /\ Executes(j, s) /\ (Signed(a) => a \in keys)
  BY DEF Inv, Types, Executable, Keyed
<1>4. Final(j, s) \in GoodState
  BY <1>3, FinalGood
<1>5. /\ store \in [Deploys -> SUBSET GoodState]
      /\ \A b \in Deploys : store[b] # {} /\ Signed(b) => b \in keys
  BY DEF Inv, Types, KeyBeforeAccount, Signed
<1> HIDE DEF a
<1>6. store'[a] = store[a] \/ store'[a] = {Final(j, s)}
  BY <1>1, <1>2, <1>5
<1>7. /\ store' \in [Deploys -> SUBSET GoodState]
      /\ \A b \in Deploys : store'[b] # {} /\ Signed(b) => b \in keys
  <2>1. \A b \in Deploys : store'[b] = store[b] \/ (b = a /\ store'[b] = {Final(j, s)})
    BY <1>1, <1>2, <1>5, <1>6
  <2>2. store' = [b \in Deploys |-> store'[b]]
    BY <1>2, <1>5
  <2> QED
    BY <1>3, <1>4, <1>5, <2>1, <2>2
<1>8. /\ keys' = keys /\ keys' \subseteq {e \in Deploys : Signed(e)}
      /\ chain' = chain /\ minted' = minted /\ traffic' = traffic
  BY DEF JobApply, Inv, Types
<1>9. Lasting(j)
  BY DEF JobApply, Inv, Reported
<1>10. "done" \in Phases /\ {} \in SUBSET GoodState
  BY DEF Phases
<1>11. job' = [job EXCEPT ![j] = [phase |-> "done", tx |-> {}]]
  BY DEF JobApply, NoTx
<1> QED
  BY <1>7, <1>8, <1>9, <1>10, <1>11, LocalStep

LEMMA InvJobStop ==
  ASSUME Inv, NEW j \in Jobs, JobStop(j)
  PROVE  Inv'
<1>1. /\ store' = store /\ store' \in [Deploys -> SUBSET GoodState]
      /\ \A b \in Deploys : store'[b] # {} /\ Signed(b) => b \in keys
  BY DEF JobStop, Inv, Types, KeyBeforeAccount, Signed
<1>2. /\ keys' = keys /\ keys' \subseteq {e \in Deploys : Signed(e)}
      /\ chain' = chain /\ minted' = minted /\ traffic' = traffic
  BY DEF JobStop, Inv, Types
<1>3. "stopped" \in Phases /\ {} \in SUBSET GoodState
  BY DEF Phases
<1>4. job' = [job EXCEPT ![j] = [phase |-> "stopped", tx |-> {}]]
  BY DEF JobStop, NoTx
<1> QED
  BY <1>1, <1>2, <1>3, <1>4, LocalStep

---------------------------------------------------------------------------
(* Steps on the chain *)

LEMMA InvJobSubmit ==
  ASSUME Inv, NEW j \in Jobs, JobSubmit(j)
  PROVE  Inv'
<1> DEFINE a == Account(j)
<1>1. a \in Deploys
  BY JobFacts
<1>2. PICK s \in job[j].tx : Accepted(j, s) /\ Commit(j, s)
  BY DEF JobSubmit
<1>3. /\ s \in GoodState /\ s \in AccountState /\ Executes(j, s)
      /\ Signed(a) => a \in keys
  BY DEF Inv, Types, Executable, Keyed, GoodState
<1> DEFINE t == Final(j, s)
<1>4. /\ t \in GoodState
      /\ Whole(s.config) => Whole(t.config)
      /\ j[1] = "init" => Written(t.config, Era(j[2]))
      /\ \A era \in Eras : Written(s.config, era) => Written(t.config, era)
  BY <1>3, FinalGood, FinalFacts
<1>5. chain' = [chain EXCEPT ![a] = {t}]
  BY <1>2 DEF Commit
<1>6. chain[a] = {s} \/ (chain[a] = {} /\ s.config = NoConfig)
  BY <1>2, <1>3 DEF Accepted, GoodState
<1> HIDE DEF t, a
<1>7. chain'[a] = {t} /\ \A b \in Deploys \ {a} : chain'[b] = chain[b]
  BY <1>1, <1>5 DEF Inv, Types
<1>8. job' = [job EXCEPT ![j] = [phase |-> "submitted", tx |-> job[j].tx]]
  BY PhaseStep DEF JobSubmit, Inv
<1>9. job'[j] = [phase |-> "submitted", tx |-> job[j].tx]
        /\ \A k \in Jobs \ {j} : job'[k] = job[k]
  BY <1>8 DEF Inv, Types
<1>10. keys' = keys /\ store' = store /\ traffic' = traffic
  BY DEF JobSubmit
<1>11. /\ minted \subseteq minted'
       /\ minted' \subseteq {MintNote(m) : m \in Mints}
       /\ j[1] = "mint" => MintNote(j[2]) \in minted'
  <2>1. minted' = IF j[1] = "mint" THEN minted \cup {MintNote(j[2])} ELSE minted
    BY <1>2 DEF Commit
  <2>2. j[1] = "mint" => j[2] \in Mints
    BY JobFacts
  <2> QED
    BY <2>1, <2>2 DEF Inv, Types
<1>12. Types'
  <2>1. chain' \in [Deploys -> SUBSET GoodState]
    BY <1>4, <1>5 DEF Inv, Types
  <2>2. job' \in [Jobs -> [phase : Phases, tx : SUBSET GoodState]]
    <3>1. "submitted" \in Phases /\ job[j].tx \in SUBSET GoodState
      BY DEF Phases, Inv, Types
    <3> QED
      BY <1>8, <3>1 DEF Inv, Types
  <2> QED
    BY <1>10, <1>11, <2>1, <2>2 DEF Inv, Types
<1>13. OneState'
  BY <1>7 DEF Inv, OneState
<1>14. Keyed'
  <2>1. \A k \in Jobs : job'[k].tx = job[k].tx
                          /\ (job'[k].phase = "keyed" => job[k].phase = "keyed")
    BY <1>9
  <2>2. \A d \in Deploys : <<"deploy", d>> \in Jobs
    BY DEF Jobs
  <2> QED
    BY <1>10, <2>1, <2>2 DEF Inv, Keyed
<1>15. Executable'
  <2>1. \A k \in Jobs : job'[k].tx = job[k].tx
    BY <1>9
  <2>2. \A k \in Jobs : \A u \in job[k].tx : Executes(k, u) => Executes(k, u)'
    BY <1>10 DEF Executes
  <2> QED
    BY <2>1, <2>2 DEF Inv, Executable
<1>16. KeyBeforeAccount'
  BY <1>3, <1>7, <1>10 DEF Inv, KeyBeforeAccount, Signed
<1>17. Reported'
  <2>1. Lasting(j)'
    <3>1. j[1] = "init" => \E u \in chain'[a] : Written(u.config, Era(j[2]))
      BY <1>4, <1>7
    <3>2. j[1] = "deploy" => chain'[j[2]] # {}
      BY <1>7, JobFacts DEF a
    <3> QED
      BY <1>11, <3>1, <3>2 DEF Lasting, a
  <2>2. ASSUME NEW k \in Jobs, Lasting(k)
        PROVE  Lasting(k)'
    <3>1. ASSUME k[1] = "init"
          PROVE  \E u \in chain'[Account(k)] : Written(u.config, Era(k[2]))
      <4>1. PICK u \in chain[Account(k)] : Written(u.config, Era(k[2]))
        BY <2>2, <3>1 DEF Lasting
      <4>2. Account(k) \in Deploys
        BY JobFacts
      <4>3. Era(k[2]) \in Eras
        BY DEF Era, Eras
      <4>4. CASE Account(k) = a
        <5>1. u = s
          BY <1>6, <4>1, <4>4
        <5> QED
          BY <1>4, <1>7, <4>1, <4>3, <4>4, <5>1
      <4>5. CASE Account(k) # a
        BY <1>7, <4>1, <4>2, <4>5
      <4> QED
        BY <4>4, <4>5
    <3>2. ASSUME k[1] = "deploy", Tool[k[2]] \in NetworkTools
          PROVE  chain'[k[2]] # {}
      <4>1. k[2] \in Deploys /\ chain[k[2]] # {}
        BY <2>2, <3>2, JobFacts DEF Lasting
      <4> QED
        BY <1>7, <4>1
    <3> QED
      BY <1>11, <2>2, <3>1, <3>2 DEF Lasting
  <2>3. \A k \in Jobs : job'[k].phase \in {"submitted", "done"} => k = j \/ Lasting(k)
    BY <1>9 DEF Inv, Reported
  <2> QED
    BY <2>1, <2>2, <2>3 DEF Reported
<1>18. ConfigWhole'
  <2>1. a \in Controllers => Whole(s.config)
    BY <1>6, ConfigFacts DEF Inv, ConfigWhole
  <2>2. Controllers \subseteq Deploys
    BY DEF Controllers
  <2> QED
    BY <1>4, <1>7, <2>1, <2>2 DEF Inv, ConfigWhole
<1> QED
  BY <1>12, <1>13, <1>14, <1>15, <1>16, <1>17, <1>18 DEF Inv

LEMMA InvOtherTransaction ==
  ASSUME Inv, NEW a \in Deploys, OtherTransaction(a)
  PROVE  Inv'
<1>1. PICK s \in chain[a] : chain' = [chain EXCEPT ![a] = {[s EXCEPT !.nonce = @ + 1]}]
  BY DEF OtherTransaction
<1> DEFINE t == [s EXCEPT !.nonce = @ + 1]
<1>2. s \in AccountState
  BY DEF Inv, Types, GoodState
<1>3. t \in GoodState /\ t.config = s.config
  <2>1. s.nonce \in Nat
    BY <1>2 DEF AccountState
  <2>2. t \in AccountState /\ t.nonce = s.nonce + 1 /\ t.config = s.config
    BY <1>2 DEF AccountState
  <2>3. t.nonce # 0
    BY <2>1, <2>2
  <2> HIDE DEF t
  <2> QED
    BY <2>2, <2>3 DEF GoodState
<1> HIDE DEF t
<1>4. chain' = [chain EXCEPT ![a] = {t}]
  BY <1>1 DEF t
<1>5. chain'[a] = {t} /\ \A b \in Deploys \ {a} : chain'[b] = chain[b]
  BY <1>4 DEF Inv, Types
<1>6. keys' = keys /\ store' = store /\ minted' = minted /\ job' = job
  BY DEF OtherTransaction
<1>7. Types'
  <2>1. chain' \in [Deploys -> SUBSET GoodState]
    BY <1>3, <1>4 DEF Inv, Types
  <2>2. traffic' \in 0..MaxTraffic
    BY DeploymentAssumption DEF OtherTransaction, Inv, Types
  <2> QED
    BY <1>6, <2>1, <2>2 DEF Inv, Types
<1>8. OneState'
  BY <1>5 DEF Inv, OneState
<1>9. Keyed' /\ Executable'
  BY <1>6 DEF Inv, Keyed, Executable, Executes
<1>10. KeyBeforeAccount'
  BY <1>5, <1>6 DEF Inv, KeyBeforeAccount
<1>11. Reported'
  <2>1. ASSUME NEW k \in Jobs, Lasting(k)
        PROVE  Lasting(k)'
    <3>1. ASSUME k[1] = "init"
          PROVE  \E u \in chain'[Account(k)] : Written(u.config, Era(k[2]))
      <4>1. PICK u \in chain[Account(k)] : Written(u.config, Era(k[2]))
        BY <2>1, <3>1 DEF Lasting
      <4>2. Account(k) \in Deploys
        BY JobFacts
      <4>3. CASE Account(k) = a
        <5>1. u = s
          BY <4>1, <4>3 DEF Inv, OneState
        <5> QED
          BY <1>3, <1>5, <4>1, <4>3, <5>1
      <4>4. CASE Account(k) # a
        BY <1>5, <4>1, <4>2, <4>4
      <4> QED
        BY <4>3, <4>4
    <3>2. ASSUME k[1] = "deploy", Tool[k[2]] \in NetworkTools
          PROVE  chain'[k[2]] # {}
      <4>1. k[2] \in Deploys /\ chain[k[2]] # {}
        BY <2>1, <3>2, JobFacts DEF Lasting
      <4> QED
        BY <1>5, <4>1
    <3> QED
      BY <1>6, <2>1, <3>1, <3>2 DEF Lasting
  <2> QED
    BY <1>6, <2>1 DEF Inv, Reported
<1>12. ConfigWhole'
  <2>1. Controllers \subseteq Deploys /\ (a \in Controllers => Whole(s.config))
    BY DEF Controllers, Inv, ConfigWhole
  <2> QED
    BY <1>3, <1>5, <2>1 DEF Inv, ConfigWhole
<1> QED
  BY <1>7, <1>8, <1>9, <1>10, <1>11, <1>12 DEF Inv

LEMMA InvNext == Inv /\ [Next]_vars => Inv'
<1> SUFFICES ASSUME Inv, [Next]_vars PROVE Inv'
  OBVIOUS
<1>1. CASE UNCHANGED vars
  BY <1>1 DEF vars, Inv, Types, OneState, Keyed, Executable, Executes, KeyBeforeAccount,
              Reported, Lasting, ConfigWhole
<1>2. CASE \E d \in Deploys : DeployBuild(d) \/ DeployAddKey(d) \/ DeployAddAccount(d)
  BY <1>2, InvDeployBuild, InvDeployAddKey, InvDeployAddAccount
<1>3. CASE \E j \in Jobs : JobExecute(j) \/ JobSubmit(j) \/ JobApply(j) \/ JobStop(j)
  BY <1>3, InvJobExecute, InvJobSubmit, InvJobApply, InvJobStop
<1>4. CASE \E a \in Deploys : OtherTransaction(a)
  BY <1>4, InvOtherTransaction
<1> QED
  BY <1>1, <1>2, <1>3, <1>4 DEF Next

LEMMA InvAlways == Spec => []Inv
BY InvInit, InvNext, PTL DEF Spec

---------------------------------------------------------------------------
(* Theorems *)

\* Every process, store and chain state is of its type, and a faucet never
\* issues more than its maximum (deploy_devnet_faucet, devnet_mint_to_operator).
THEOREM DeploymentTypes == Spec => []TypeOK
<1>1. GoodState \subseteq AccountState
  BY DEF GoodState
<1>2. Inv => TypeOK
  <2> SUFFICES ASSUME Inv PROVE TypeOK
    OBVIOUS
  <2>1. chain \in [Deploys -> SUBSET AccountState] /\ store \in [Deploys -> SUBSET AccountState]
    BY <1>1 DEF Inv, Types
  <2>2. job \in [Jobs -> [phase : Phases, tx : SUBSET AccountState]]
    <3>1. [phase : Phases, tx : SUBSET GoodState] \subseteq [phase : Phases, tx : SUBSET AccountState]
      BY <1>1
    <3> QED
      BY <3>1 DEF Inv, Types
  <2> QED
    BY <2>1, <2>2 DEF TypeOK, Inv, Types
<1> QED
  BY <1>2, InvAlways, PTL

\* No signed account ever loses its key to a crash between add_key and
\* add_account (deploy_v5, v6, v7, deploy_devnet_faucet).
THEOREM KeysComeFirst == Spec => []KeyBeforeAccount
<1>1. Inv => KeyBeforeAccount
  BY DEF Inv
<1> QED
  BY <1>1, InvAlways, PTL

\* However many init processes race, die and repeat, with whatever networks,
\* a controller has an era's baskets whole or not at all.
THEOREM ConfigStaysWhole == Spec => []ConfigWhole
<1>1. Inv => ConfigWhole
  BY DEF Inv
<1> QED
  BY <1>1, InvAlways, PTL

\* The success line of every deploy, init and mint process stays true.
THEOREM ReportsAreTrue == Spec => []DoneIsTrue
<1>1. Inv => DoneIsTrue
  <2> SUFFICES ASSUME Inv, NEW j \in Jobs, job[j].phase = "done"
               PROVE  CASE j[1] = "init" -> \E s \in chain[Account(j)] : Written(s.config, Era(j[2]))
                        [] j[1] = "mint" -> MintNote(j[2]) \in minted
                        [] j[1] = "deploy" -> Tool[j[2]] \in NetworkTools => chain[j[2]] # {}
    BY DEF DoneIsTrue
  <2>1. Lasting(j)
    BY DEF Inv, Reported
  <2>2. j[1] \in {"deploy", "init", "mint"}
    BY JobFacts
  <2> QED
    BY <2>1, <2>2 DEF Lasting
<1> QED
  BY <1>1, InvAlways, PTL

---------------------------------------------------------------------------
(* The supply of the faucets *)

NotesOf(f) == {n \in minted : n[1] = f}

Face(f) == [n \in NotesOf(f) |-> n[2]]

\* A minted note's process never mints again; a faucet that is not on the
\* chain has no notes.
Issued ==
  /\ IsFiniteSet(minted)
  /\ \A m \in Mints :
       MintNote(m) \in minted => job[<<"mint", m>>].phase \notin {"start", "executed"}
  /\ \A f \in Faucets : chain[f] = {} => NotesOf(f) = {}
  /\ \A f \in Faucets : \A s \in chain[f] : s.issued = SumFunction(Face(f))

LEMMA IssuedBacks == Issued => SupplyBacked
BY DEF Issued, SupplyBacked, Face, NotesOf

LEMMA FaceFacts ==
  ASSUME Inv, Issued, NEW f
  PROVE  /\ IsFiniteSet(NotesOf(f))
         /\ Face(f) \in [NotesOf(f) -> Int]
<1>1. IsFiniteSet(NotesOf(f))
  BY FS_Subset DEF Issued, NotesOf
<1>2. \A n \in minted : n[2] \in Int
  BY DeploymentAssumption DEF Inv, Types, MintNote
<1> QED
  BY <1>1, <1>2 DEF Face, NotesOf

LEMMA IssuedInit == Init => Issued
<1> SUFFICES ASSUME Init PROVE Issued
  OBVIOUS
<1>1. minted = {} /\ \A f \in Faucets : chain[f] = {}
  BY DEF Init, Faucets
<1> QED
  BY <1>1, FS_EmptySet DEF Issued, NotesOf

\* Nothing is minted and no account changes.
LEMMA IssuedStep ==
  ASSUME Inv, Issued, minted' = minted, chain' = chain,
         \A m \in Mints : job[<<"mint", m>>].phase \notin {"start", "executed"} =>
                            job'[<<"mint", m>>].phase \notin {"start", "executed"}
  PROVE  Issued'
BY DEF Issued, NotesOf, Face

\* A submission: a mint adds one note and its amount, anything else neither.
LEMMA IssuedSubmit ==
  ASSUME Inv, Issued, NEW j \in Jobs, JobSubmit(j)
  PROVE  Issued'
<1> DEFINE a == Account(j)
<1>1. a \in Deploys /\ Faucets \subseteq Deploys
  BY JobFacts DEF Faucets
<1>2. PICK s \in job[j].tx : Accepted(j, s) /\ Commit(j, s)
  BY DEF JobSubmit
<1>3. s \in GoodState /\ s \in AccountState
  BY DEF Inv, Types, GoodState
<1> DEFINE t == Final(j, s)
<1>4. t.issued = s.issued + IF j[1] = "mint" THEN Amount[j[2]] ELSE 0
  BY DEF Final
<1>5. s.issued \in Int
  BY <1>3, DeploymentAssumption DEF AccountState
<1>6. chain' = [chain EXCEPT ![a] = {t}]
  BY <1>2 DEF Commit
<1>7. chain[a] = {s} \/ (chain[a] = {} /\ s.issued = 0)
  BY <1>2, <1>3 DEF Accepted, GoodState
<1> HIDE DEF t
<1>8. chain'[a] = {t} /\ \A b \in Deploys \ {a} : chain'[b] = chain[b]
  BY <1>1, <1>6 DEF Inv, Types
<1>9. /\ job[j].phase = "executed" /\ job'[j].phase = "submitted"
      /\ \A k \in Jobs \ {j} : job'[k] = job[k]
  BY DEF JobSubmit, Inv, Types
<1>10. \A m \in Mints : <<"mint", m>> \in Jobs
  BY DEF Jobs
<1>11. a \in Faucets => s.issued = SumFunction(Face(a))
  <2> SUFFICES ASSUME a \in Faucets PROVE s.issued = SumFunction(Face(a))
    OBVIOUS
  <2>1. CASE chain[a] = {s}
    BY <2>1 DEF Issued
  <2>2. CASE chain[a] = {} /\ s.issued = 0
    <3>1. NotesOf(a) = {}
      BY <2>2 DEF Issued
    <3>2. Face(a) \in [{} -> Int]
      BY <3>1, FaceFacts
    <3> QED
      BY <2>2, <3>2, SumEmpty
  <2> QED
    BY <1>7, <2>1, <2>2
<1>12. CASE j[1] # "mint"
  <2>1. minted' = minted /\ t.issued = s.issued
    BY <1>2, <1>4, <1>5, <1>12 DEF Commit
  <2>2. \A f : NotesOf(f)' = NotesOf(f) /\ Face(f)' = Face(f)
    BY <2>1 DEF NotesOf, Face
  <2>3. \A m \in Mints : <<"mint", m>> # j
    BY <1>12
  <2>4. \A f \in Faucets : chain'[f] = {} => NotesOf(f)' = {}
    BY <1>1, <1>8, <2>2 DEF Issued
  <2>5. ASSUME NEW f \in Faucets, NEW u \in chain'[f]
        PROVE  u.issued = SumFunction(Face(f))
    <3>1. CASE f = a
      BY <1>8, <1>11, <2>1, <2>5, <3>1
    <3>2. CASE f # a
      BY <1>1, <1>8, <2>5, <3>2 DEF Issued
    <3> QED
      BY <3>1, <3>2
  <2> QED
    BY <1>9, <1>10, <2>1, <2>2, <2>3, <2>4, <2>5 DEF Issued
<1>13. CASE j[1] = "mint"
  <2> DEFINE m == j[2]
             n == MintNote(m)
  <2>1. m \in Mints /\ j = <<"mint", m>> /\ a = Faucet[m] /\ a \in Faucets
    BY <1>13, JobFacts DEF Jobs
  <2>2. n[1] = a /\ n[2] = Amount[m] /\ Amount[m] \in Int
    BY <2>1, DeploymentAssumption DEF MintNote
  <2>3. n \notin minted
    BY <1>9, <2>1 DEF Issued
  <2>4. \A k \in Mints : MintNote(k) = n => k = m
    BY DEF MintNote
  <2>5. minted' = minted \cup {n} /\ t.issued = s.issued + Amount[m]
    BY <1>2, <1>4, <1>13 DEF Commit
  <2> HIDE DEF n
  <2>6. IsFiniteSet(minted')
    BY <2>5, FS_AddElement DEF Issued
  <2>7. \A k \in Mints :
          MintNote(k) \in minted' => job'[<<"mint", k>>].phase \notin {"start", "executed"}
    <3> SUFFICES ASSUME NEW k \in Mints, MintNote(k) \in minted'
                 PROVE  job'[<<"mint", k>>].phase \notin {"start", "executed"}
      OBVIOUS
    <3>1. CASE k = m
      BY <1>9, <2>1, <3>1
    <3>2. CASE k # m
      <4>1. MintNote(k) \in minted /\ <<"mint", k>> # j
        BY <2>1, <2>4, <2>5, <3>2
      <4> QED
        BY <1>9, <1>10, <4>1 DEF Issued
    <3> QED
      BY <3>1, <3>2
  <2>8. \A f \in Faucets \ {a} : NotesOf(f)' = NotesOf(f) /\ Face(f)' = Face(f)
    <3>1. \A f \in Faucets \ {a} : NotesOf(f)' = NotesOf(f)
      BY <2>2, <2>5 DEF NotesOf
    <3> QED
      BY <3>1 DEF Face
  <2>9. SumFunction(Face(a)') = Amount[m] + SumFunction(Face(a))
    <3> DEFINE S == NotesOf(a) \cup {n}
               F == [k \in S |-> k[2]]
    <3>1. IsFiniteSet(NotesOf(a)) /\ Face(a) \in [NotesOf(a) -> Int]
      BY FaceFacts
    <3>2. NotesOf(a)' = S
      BY <2>2, <2>5 DEF NotesOf
    <3>3. Face(a)' = F
      BY <3>2 DEF Face
    <3>4. n \in S /\ S \ {n} = NotesOf(a) /\ IsFiniteSet(S)
      BY <2>3, <3>1, FS_AddElement DEF NotesOf
    <3>5. \A k \in S \ {n} : F[k] = Face(a)[k] /\ F[k] \in Int
      BY <3>1, <3>4 DEF Face
    <3>6. F[n] = Amount[m]
      BY <2>2, <3>4
    <3>7. F \in [S -> Int]
      BY <2>2, <3>5, <3>6
    <3>8. Face(a) \in [S \ {n} -> Int]
      BY <3>1, <3>4
    <3> HIDE DEF S, F
    <3>9. SumFunction(F) = F[n] + SumFunction(Face(a))
      BY <3>4, <3>5, <3>7, <3>8, SumRemove
    <3> QED
      BY <3>3, <3>6, <3>9
  <2>10. \A f \in Faucets : chain'[f] = {} => NotesOf(f)' = {}
    BY <1>1, <1>8, <2>8 DEF Issued
  <2>11. ASSUME NEW f \in Faucets, NEW u \in chain'[f]
         PROVE  u.issued = SumFunction(Face(f)')
    <3>1. CASE f = a
      <4>1. u = t
        BY <1>8, <2>11, <3>1
      <4>2. t.issued = s.issued + Amount[m] /\ s.issued = SumFunction(Face(a))
        BY <1>11, <2>1, <2>5
      <4>3. SumFunction(Face(f)') = Amount[m] + s.issued
        BY <2>9, <3>1, <4>2
      <4> QED
        BY <1>5, <2>2, <4>1, <4>2, <4>3
    <3>2. CASE f # a
      <4>1. u \in chain[f] /\ Face(f)' = Face(f)
        BY <1>1, <1>8, <2>8, <2>11, <3>2
      <4> QED
        BY <4>1 DEF Issued
    <3> QED
      BY <3>1, <3>2
  <2> QED
    BY <2>6, <2>7, <2>10, <2>11 DEF Issued
<1> QED
  BY <1>12, <1>13

LEMMA IssuedNext == Inv /\ Issued /\ [Next]_vars => Issued'
<1> SUFFICES ASSUME Inv, Issued, [Next]_vars PROVE Issued'
  OBVIOUS
<1>0. \A m \in Mints : <<"mint", m>> \in Jobs
  BY DEF Jobs
<1>1. CASE UNCHANGED vars
  BY <1>1, IssuedStep DEF vars
<1>2. ASSUME NEW d \in Deploys, DeployBuild(d) \/ DeployAddKey(d) \/ DeployAddAccount(d)
      PROVE  Issued'
  <2>1. \A m \in Mints : job'[<<"mint", m>>] = job[<<"mint", m>>]
    BY <1>0, <1>2 DEF DeployBuild, DeployAddKey, DeployAddAccount, Inv, Types
  <2>2. minted' = minted /\ chain' = chain
    BY <1>2 DEF DeployBuild, DeployAddKey, DeployAddAccount
  <2> QED
    BY <2>1, <2>2, IssuedStep
<1>3. ASSUME NEW j \in Jobs, JobExecute(j)
      PROVE  Issued'
  <2>1. \A m \in Mints : job[<<"mint", m>>].phase \notin {"start", "executed"} =>
                           job'[<<"mint", m>>].phase \notin {"start", "executed"}
    BY <1>0, <1>3 DEF JobExecute, Inv, Types
  <2>2. minted' = minted /\ chain' = chain
    BY <1>3 DEF JobExecute
  <2> QED
    BY <2>1, <2>2, IssuedStep
<1>4. ASSUME NEW j \in Jobs, JobApply(j) \/ JobStop(j)
      PROVE  Issued'
  <2>1. \A m \in Mints : job[<<"mint", m>>].phase \notin {"start", "executed"} =>
                           job'[<<"mint", m>>].phase \notin {"start", "executed"}
    BY <1>0, <1>4 DEF JobApply, JobStop, Inv, Types
  <2>2. minted' = minted /\ chain' = chain
    BY <1>4 DEF JobApply, JobStop
  <2> QED
    BY <2>1, <2>2, IssuedStep
<1>5. ASSUME NEW j \in Jobs, JobSubmit(j)
      PROVE  Issued'
  BY <1>5, IssuedSubmit
<1>6. ASSUME NEW a \in Deploys, OtherTransaction(a)
      PROVE  Issued'
  <2>1. PICK s \in chain[a] : chain' = [chain EXCEPT ![a] = {[s EXCEPT !.nonce = @ + 1]}]
    BY <1>6 DEF OtherTransaction
  <2>2. minted' = minted /\ job' = job /\ Faucets \subseteq Deploys
    BY <1>6 DEF OtherTransaction, Faucets
  <2>3. [s EXCEPT !.nonce = @ + 1].issued = s.issued
    <3>1. s \in AccountState
      BY DEF Inv, Types, GoodState
    <3> QED
      BY <3>1 DEF AccountState
  <2>4. /\ \A b \in Deploys \ {a} : chain'[b] = chain[b]
        /\ chain[a] # {} /\ chain'[a] # {} /\ \A u \in chain'[a] : u.issued = s.issued
    BY <2>1, <2>3 DEF Inv, Types
  <2>5. \A f : NotesOf(f)' = NotesOf(f) /\ Face(f)' = Face(f)
    BY <2>2 DEF NotesOf, Face
  <2>6. \A f \in Faucets : \A u \in chain'[f] : u.issued = SumFunction(Face(f))
    BY <2>1, <2>2, <2>4 DEF Issued
  <2>7. \A f \in Faucets : chain'[f] = {} => NotesOf(f) = {}
    BY <2>2, <2>4 DEF Issued
  <2> QED
    BY <2>2, <2>5, <2>6, <2>7 DEF Issued
<1> QED
  BY <1>1, <1>2, <1>3, <1>4, <1>5, <1>6 DEF Next

\* However many mints race on stale copies of a faucet, die and are refused,
\* what it has issued is what its notes carry (devnet_mint_to_operator).
THEOREM SupplyIsBacked == Spec => []SupplyBacked
<1>1. Spec => []Issued
  BY IssuedInit, IssuedNext, InvAlways, PTL DEF Spec
<1> QED
  BY <1>1, IssuedBacks, PTL

---------------------------------------------------------------------------
(* The refinement *)

Mapped == [a \in Controllers |-> ConfigOf(chain[a])]

LEMMA ConfigOfOne ==
  /\ ConfigOf({}) = NoConfig
  /\ \A s : ConfigOf({s}) = s.config
<1>1. \A s : (CHOOSE t \in {s} : TRUE) = s
  OBVIOUS
<1> QED
  BY <1>1 DEF ConfigOf

\* The instance's own copies of the definitions of BasketConfig.
LEMMA SameConfig ==
  /\ Abstract!NoConfig = NoConfig
  /\ Abstract!Eras = Eras
  /\ \A c, era, r : Abstract!Configured(c, era, r) = Configured(c, era, r)
<1>1. /\ Abstract!Eras = Eras /\ Abstract!Keys = Keys /\ Abstract!Zero = Zero
      /\ Abstract!Symbols = Symbols
  BY DEF Abstract!Eras, Eras, Abstract!Keys, Keys, Abstract!Zero, Zero,
         Abstract!Symbols, Symbols
<1>2. Abstract!NoConfig = NoConfig
  BY <1>1 DEF Abstract!NoConfig, NoConfig
<1>3. \A s : Abstract!weights_for(s) = weights_for(s) /\ Abstract!fees_for(s) = fees_for(s)
  BY DEF Abstract!weights_for, weights_for, Abstract!fees_for, fees_for
<1>4. ASSUME NEW c, NEW era, NEW r
      PROVE  Abstract!Configured(c, era, r) = Configured(c, era, r)
  BY <1>1, <1>3 DEF Abstract!Configured, Configured
<1> QED
  BY <1>1, <1>2, <1>4

LEMMA MappedSubmit ==
  ASSUME Inv, NEW j \in Jobs, JobSubmit(j)
  PROVE  Abstract!Next \/ Mapped' = Mapped
<1> DEFINE a == Account(j)
<1>1. a \in Deploys
  BY JobFacts
<1>2. PICK s \in job[j].tx : Accepted(j, s) /\ Commit(j, s)
  BY DEF JobSubmit
<1>3. s \in GoodState /\ s \in AccountState /\ Executes(j, s)
  BY DEF Inv, Types, Executable, GoodState
<1> DEFINE t == Final(j, s)
<1>4. chain' = [chain EXCEPT ![a] = {t}]
  BY <1>2 DEF Commit
<1>5. chain[a] = {s} \/ (chain[a] = {} /\ s.config = NoConfig)
  BY <1>2, <1>3 DEF Accepted, GoodState
<1>6. j[1] # "init" => t.config = s.config
  BY <1>3, FinalFacts
<1>7. j[1] = "init" =>
        /\ a \in Controllers /\ Tool[a] \in SignedTools
        /\ \/ t.config = Configured(s.config, "m1", s.config.recipient)
           \/ \E era \in Eras \ {"m1"}, r \in Recipients : t.config = Configured(s.config, era, r)
  <2> SUFFICES ASSUME j[1] = "init"
               PROVE  /\ a \in Controllers /\ Tool[a] \in SignedTools
                      /\ \/ t.config = Configured(s.config, "m1", s.config.recipient)
                         \/ \E era \in Eras \ {"m1"}, r \in Recipients :
                              t.config = Configured(s.config, era, r)
    OBVIOUS
  <2>1. a \in Controllers
    BY JobFacts
  <2>2. a \in keys
    BY <1>3 DEF Executes
  <2>3. Tool[a] \in SignedTools
    BY <2>2 DEF Inv, Types, Signed
  <2> QED
    BY <2>1, <2>3, InitConfig
<1> HIDE DEF t, a
<1>8. chain'[a] = {t} /\ \A b \in Deploys \ {a} : chain'[b] = chain[b]
  BY <1>1, <1>4 DEF Inv, Types
<1>9. \A b \in Controllers \ {a} : Mapped'[b] = Mapped[b]
  <2>1. Controllers \subseteq Deploys
    BY DEF Controllers
  <2> QED
    BY <1>8, <2>1 DEF Mapped
<1>10. a \in Controllers => Mapped[a] = s.config /\ Mapped'[a] = t.config
  BY <1>5, <1>8, ConfigOfOne DEF Mapped
<1>11. Mapped = [b \in Controllers |-> Mapped[b]] /\ Mapped' = [b \in Controllers |-> Mapped'[b]]
  BY DEF Mapped
<1>12. CASE j[1] # "init"
  BY <1>6, <1>9, <1>10, <1>11, <1>12
<1>13. CASE j[1] = "init"
  <2>1. a \in {b \in Controllers : Tool[b] \in SignedTools}
    BY <1>7, <1>13
  <2>2. Mapped' = [Mapped EXCEPT ![a] = t.config]
    BY <1>9, <1>10, <1>11, <2>1
  <2>3. CASE t.config = Configured(s.config, "m1", s.config.recipient)
    <3>1. Mapped' = [Mapped EXCEPT ![a] = Configured(@, "m1", @.recipient)]
      BY <1>10, <2>1, <2>2, <2>3, <1>11
    <3>2. Abstract!Configure(a)
      BY <3>1, SameConfig DEF Abstract!Configure, Mapped
    <3> QED
      BY <2>1, <3>2 DEF Abstract!Next
  <2>4. CASE \E era \in Eras \ {"m1"}, r \in Recipients : t.config = Configured(s.config, era, r)
    <3>1. \E era \in Eras \ {"m1"}, r \in Recipients :
            Mapped' = [Mapped EXCEPT ![a] = Configured(@, era, r)]
      BY <1>10, <2>1, <2>2, <2>4, <1>11
    <3>2. Abstract!ConfigureAndRoute(a)
      BY <3>1, SameConfig DEF Abstract!ConfigureAndRoute, Mapped
    <3> QED
      BY <2>1, <3>2 DEF Abstract!Next
  <2> QED
    BY <1>7, <1>13, <2>3, <2>4
<1> QED
  BY <1>12, <1>13

LEMMA MappedTraffic ==
  ASSUME Inv, NEW a \in Deploys, OtherTransaction(a)
  PROVE  Mapped' = Mapped
<1>1. PICK s \in chain[a] : chain' = [chain EXCEPT ![a] = {[s EXCEPT !.nonce = @ + 1]}]
  BY DEF OtherTransaction
<1> DEFINE t == [s EXCEPT !.nonce = @ + 1]
<1>2. t.config = s.config
  <2>1. s \in AccountState
    BY DEF Inv, Types, GoodState
  <2> QED
    BY <2>1 DEF AccountState
<1> HIDE DEF t
<1>3. chain'[a] = {t} /\ \A b \in Deploys \ {a} : chain'[b] = chain[b]
  BY <1>1 DEF Inv, Types, t
<1>4. chain[a] = {s}
  BY DEF Inv, OneState
<1>5. \A b \in Controllers \ {a} : Mapped'[b] = Mapped[b]
  <2>1. Controllers \subseteq Deploys
    BY DEF Controllers
  <2> QED
    BY <1>3, <2>1 DEF Mapped
<1>6. a \in Controllers => Mapped'[a] = Mapped[a]
  BY <1>2, <1>3, <1>4, ConfigOfOne DEF Mapped
<1> QED
  BY <1>5, <1>6 DEF Mapped

LEMMA MappedNext == Inv /\ [Next]_vars => [Abstract!Next]_Mapped
<1> SUFFICES ASSUME Inv, [Next]_vars PROVE Abstract!Next \/ Mapped' = Mapped
  OBVIOUS
<1>1. chain' = chain => Mapped' = Mapped
  BY DEF Mapped
<1>2. CASE UNCHANGED vars
  BY <1>1, <1>2 DEF vars
<1>3. CASE \E d \in Deploys : DeployBuild(d) \/ DeployAddKey(d) \/ DeployAddAccount(d)
  BY <1>1, <1>3 DEF DeployBuild, DeployAddKey, DeployAddAccount
<1>4. CASE \E j \in Jobs : JobExecute(j) \/ JobApply(j) \/ JobStop(j)
  BY <1>1, <1>4 DEF JobExecute, JobApply, JobStop
<1>5. CASE \E j \in Jobs : JobSubmit(j)
  BY <1>5, MappedSubmit
<1>6. CASE \E a \in Deploys : OtherTransaction(a)
  BY <1>6, MappedTraffic
<1> QED
  BY <1>2, <1>3, <1>4, <1>5, <1>6 DEF Next

\* deploy_v5_init and deploy_v6_init implement the atomic configuration of an
\* era, for every set of processes, networks, packages and stores.
THEOREM InitImplementsConfig == Spec => ImplementsConfig
<1>1. Init => Abstract!Init
  <2> SUFFICES ASSUME Init PROVE Abstract!Init
    OBVIOUS
  <2>1. \A a \in Controllers : chain[a] = {}
    BY DEF Init, Controllers
  <2> QED
    BY <2>1, ConfigOfOne, SameConfig DEF Abstract!Init
<1>2. Inv /\ [Next]_vars => [Abstract!Next]_Mapped
  BY MappedNext
<1>3. Inv /\ [Next]_vars => [Abstract!Next]_([a \in Controllers |-> ConfigOf(chain[a])])
  BY <1>2 DEF Mapped
<1> QED
  BY <1>1, <1>3, InvAlways, PTL DEF Spec, ImplementsConfig, Abstract!Spec
============================================================================
