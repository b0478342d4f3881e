---------------------------- MODULE PairingProofs ----------------------------
(***************************************************************************)
(* Theorems about Pairing, for every set of devices, runs and issuers,     *)
(* every budget and every number of codes, tokens, re-arms and restarts.   *)
(***************************************************************************)
EXTENDS Pairing, FiniteSetTheorems, WellFoundedInduction, TLAPS

\* A set of numbers up to N that is not empty has a greatest one, and Max names it.
LEMMA MaxIsAmong ==
  ASSUME NEW N \in Nat, NEW S \in SUBSET (1..N), S # {}
  PROVE  Max(S) \in S
<1> DEFINE T == {n \in Nat : N - n \in S}
<1>1. \A y \in S : y \in Nat /\ N - y \in T
  <2> TAKE y \in S
  <2>1. y \in 1..N
    OBVIOUS
  <2>2. y \in Nat /\ N - y \in Nat /\ N - (N - y) = y
    BY <2>1
  <2> QED
    BY <2>2
<1>2. T \subseteq Nat /\ T # {}
  BY <1>1
<1>3. PICK m \in T : \A n \in T : ~(<<n, m>> \in OpToRel(<, Nat))
  <2> HIDE DEF T
  <2> QED
    BY <1>2, WFMin, NatLessThanWellFounded
<1>4. m \in Nat /\ N - m \in S
  BY <1>3
<1>5. ASSUME NEW y \in S PROVE N - m >= y
  <2>1. N - y \in T /\ N - y \in Nat /\ y \in Nat
    BY <1>1, <1>2
  <2>2. ~(N - y < m)
    <3> HIDE DEF T
    <3> QED
      BY <1>3, <1>4, <2>1 DEF OpToRel
  <2> QED
    BY <1>4, <2>1, <2>2
<1> QED
  BY <1>4, <1>5 DEF Max

-----------------------------------------------------------------------------
(* Types.                                                                  *)

\* TypeOK without the count of pending runs, and sharper where a run indexes the tables: a run
\* that began has a device, one that proved a code names one, one that resumes a session names a
\* token or none.
RunType ==
  [pc : RunPcs, method : Methods \cup {"none"}, device : Devices \cup {"none"}, on : Nat, era : Nat]

Types ==
  /\ code \in [Codes -> CodeStates] /\ cache \subseteq Codes
  /\ attempts \in [Codes -> 0..Budget] /\ checks \in [Codes -> Nat]
  /\ forgotten \subseteq Codes
  /\ run \in [Runs -> RunType]
  /\ issuer \in [Issuers -> [pc : {"idle", "read", "retired", "inserted"}, code : Nat,
                             older : SUBSET Codes]]
  /\ token \in [Tokens -> [device : Devices \cup {"none"}, live : BOOLEAN]]
  /\ claim \in Devices \cup {"none"} /\ era \in 0..MaxRearms /\ excused \in BOOLEAN
  /\ crashes \in 0..MaxCrashes

\* Which places a run of each method passes through, and what it names there.
Shaped(x) ==
  /\ x.method = "none"   => x.pc = "idle"
  /\ x.method = "cpace"  => /\ x.pc \in {"pending", "burned", "live", "retiring", "proved",
                                         "consumed", "latched", "paired", "over"}
                            /\ x.on \in Codes
  /\ x.method = "hmac"   => /\ x.pc \in {"pending", "proved", "consumed", "latched", "paired", "over"}
                            /\ x.pc \notin {"pending", "over"} => x.on \in Codes
  /\ x.method = "legacy" => /\ x.pc \in {"matched", "consumed", "latched", "paired", "over"}
                            /\ x.on \in Codes
  /\ x.method = "setup"  => x.pc \in {"pending", "burned", "confirmed", "latched", "paired", "over"}
  /\ x.method = "device" => /\ x.pc \in {"pending", "burned", "paired", "over"}
                            /\ x.on \in Tokens \cup {0}
  /\ x.pc # "idle" => x.device \in Devices

RunsShaped == \A r \in Runs : Shaped(run[r])

IssuersShaped ==
  \A i \in Issuers : issuer[i].pc # "idle" => issuer[i].code \in Codes

Typed == Types /\ RunsShaped /\ IssuersShaped

\* The pond starts with nothing issued and nobody paired.
LEMMA TypedInit == Init => Typed
<1> SUFFICES ASSUME Init PROVE Typed
  OBVIOUS
<1>1. /\ code \in [Codes -> CodeStates] /\ cache \subseteq Codes
      /\ attempts \in [Codes -> 0..Budget] /\ checks \in [Codes -> Nat]
      /\ forgotten \subseteq Codes
  BY PairingAssumption DEF Init, CodeStates
<1>2. Idle \in RunType /\ Shaped(Idle)
  BY PairingAssumption DEF Idle, RunType, RunPcs, Shaped
<1>3. run \in [Runs -> RunType] /\ RunsShaped
  BY <1>2 DEF Init, RunsShaped
<1>4. /\ issuer \in [Issuers -> [pc : {"idle", "read", "retired", "inserted"}, code : Nat,
                                 older : SUBSET Codes]]
      /\ IssuersShaped
  BY DEF Init, IssuersShaped
<1>5. token \in [Tokens -> [device : Devices \cup {"none"}, live : BOOLEAN]]
  BY DEF Init
<1>6. claim \in Devices \cup {"none"} /\ era \in 0..MaxRearms /\ crashes \in 0..MaxCrashes
  BY PairingAssumption DEF Init
<1>7. excused \in BOOLEAN
  BY Zenon DEF Init
<1> QED
  BY <1>1, <1>3, <1>4, <1>5, <1>6, <1>7 DEF Typed, Types

\* A run that takes one step of its method's path keeps its shape, and the others theirs.
LEMMA OneRunMoves ==
  ASSUME Typed, NEW r \in Runs, NEW x \in RunType, Shaped(x), run' = [run EXCEPT ![r] = x]
  PROVE  run' \in [Runs -> RunType] /\ RunsShaped'
<1>1. run \in [Runs -> RunType] /\ \A q \in Runs : Shaped(run[q])
  BY DEF Typed, Types, RunsShaped
<1>2. run' \in [Runs -> RunType] /\ \A q \in Runs : run'[q] = IF q = r THEN x ELSE run[q]
  BY <1>1
<1>3. ASSUME NEW q \in Runs PROVE Shaped(run'[q])
  BY <1>1, <1>2
<1> QED
  BY <1>2, <1>3 DEF RunsShaped, Shaped

\* The same for a run whose place alone changes.
LEMMA OneRunGoes ==
  ASSUME Typed, NEW r \in Runs, NEW pc \in RunPcs, Shaped([run[r] EXCEPT !.pc = pc]), Goes(r, pc)
  PROVE  run' \in [Runs -> RunType] /\ RunsShaped'
<1>1. run[r] \in RunType
  BY DEF Typed, Types
<1>2. [run[r] EXCEPT !.pc = pc] \in RunType
  BY <1>1 DEF RunType
<1>3. run' = [run EXCEPT ![r] = [run[r] EXCEPT !.pc = pc]]
  BY DEF Goes
<1> QED
  BY <1>2, <1>3, OneRunMoves

\* retire_codes leaves codes, plaintexts and budgets of their types.
LEMMA RetireTypes ==
  ASSUME Types, NEW cs \in SUBSET Codes, RetireCodes(cs)
  PROVE  /\ code' \in [Codes -> CodeStates] /\ cache' \subseteq Codes
         /\ attempts' \in [Codes -> 0..Budget]
BY PairingAssumption DEF Types, RetireCodes, CodeStates

\* issue_session_pair leaves every token with a device and a state.
LEMMA TokenTypes ==
  ASSUME Types, NEW d \in Devices \cup {"none"}, IssueSessionPair(d)
  PROVE  token' \in [Tokens -> [device : Devices \cup {"none"}, live : BOOLEAN]]
BY DEF Types, IssueSessionPair

\* Issuing and expiring codes.
LEMMA TypedIssuers ==
  ASSUME Typed,
         \/ \E i \in Issuers : IssueRead(i) \/ IssueRetire(i) \/ IssueInsert(i) \/ IssueCache(i)
         \/ \E c \in Codes : Expire(c)
  PROVE  Typed'
<1> USE DEF Typed, memory
<1>1. ASSUME NEW i \in Issuers, IssueRead(i) PROVE Typed'
  <2>1. Types' /\ IssuersShaped'
    BY <1>1 DEF IssueRead, Types, IssuersShaped, CodeStates, Active, Codes
  <2> QED
    BY <1>1, <2>1 DEF IssueRead, RunsShaped, Shaped
<1>2. ASSUME NEW i \in Issuers, IssueRetire(i) PROVE Typed'
  <2>1. issuer[i].older \in SUBSET Codes
    BY DEF Types
  <2>2. Types' /\ IssuersShaped'
    BY <1>2, <2>1, RetireTypes DEF IssueRetire, Types, IssuersShaped
  <2> QED
    BY <1>2, <2>2 DEF IssueRetire, RunsShaped, Shaped
<1>3. ASSUME NEW i \in Issuers, IssueInsert(i) PROVE Typed'
  <2>1. Types' /\ IssuersShaped'
    BY <1>3 DEF IssueInsert, Types, IssuersShaped, CodeStates
  <2> QED
    BY <1>3, <2>1 DEF IssueInsert, RunsShaped, Shaped
<1>4. ASSUME NEW i \in Issuers, IssueCache(i) PROVE Typed'
  <2>1. Types' /\ IssuersShaped'
    BY <1>4 DEF IssueCache, Types, IssuersShaped
  <2> QED
    BY <1>4, <2>1 DEF IssueCache, RunsShaped, Shaped
<1>5. ASSUME NEW c \in Codes, Expire(c) PROVE Typed'
  <2>1. Types' /\ IssuersShaped'
    BY <1>5 DEF Expire, Types, IssuersShaped, CodeStates
  <2> QED
    BY <1>5, <2>1 DEF Expire, RunsShaped, Shaped
<1> QED
  BY <1>1, <1>2, <1>3, <1>4, <1>5

\* Starting a run.
LEMMA TypedStarts ==
  ASSUME Typed, NEW r \in Runs, NEW d \in Devices,
         \/ StartPairing(r, d) \/ StartSetup(r, d) \/ StartDevice(r, d)
         \/ InitHandshake(r, d) \/ MatchCode(r, d)
  PROVE  Typed'
<1>1. ASSUME NEW m \in Methods, NEW on \in Nat, Start(r, m, d, on), m # "legacy",
             m = "cpace" => on \in Codes, m = "device" => on \in Tokens \cup {0}
      PROVE  Typed'
  <2> DEFINE x == [pc |-> "pending", method |-> m, device |-> d, on |-> on, era |-> 0]
  <2>1. x \in RunType /\ Shaped(x)
    BY <1>1, PairingAssumption DEF RunType, RunPcs, Shaped
  <2>2. run' = [run EXCEPT ![r] = x]
    BY <1>1 DEF Start
  <2>3. run' \in [Runs -> RunType] /\ RunsShaped'
    BY <2>1, <2>2, OneRunMoves
  <2> QED
    BY <1>1, <2>3 DEF Start, Typed, Types, IssuersShaped, memory, tables
<1>2. CASE StartPairing(r, d)
  <2>1. Max(Active) \in Codes
    BY <1>2 DEF StartPairing, Typed, Types
  <2>2. Max(Active) \in Nat
    BY <2>1 DEF Codes
  <2> QED
    BY <1>1, <1>2, <2>1, <2>2 DEF StartPairing, Start
<1>3. CASE StartSetup(r, d) \/ InitHandshake(r, d)
  BY <1>1, <1>3 DEF StartSetup, InitHandshake, Start
<1>4. CASE StartDevice(r, d)
  <2> DEFINE on == IF LiveOf(d) = {} THEN 0 ELSE Max(LiveOf(d))
  <2>1. LiveOf(d) \in SUBSET (1..MaxTokens) /\ MaxTokens \in Nat
    BY PairingAssumption DEF LiveOf, Tokens
  <2>2. LiveOf(d) # {} => Max(LiveOf(d)) \in LiveOf(d)
    BY <2>1, MaxIsAmong, Zenon
  <2>3. on \in Tokens \cup {0}
    BY <2>2 DEF LiveOf
  <2>4. on \in Nat
    BY <2>3 DEF Tokens
  <2>5. Start(r, "device", d, on) /\ "device" \in Methods
    BY <1>4 DEF StartDevice, Start
  <2> QED
    BY <1>1, <2>3, <2>4, <2>5
<1>5. CASE MatchCode(r, d)
  <2>1. PICK c \in Active :
           run' = [run EXCEPT ![r] = [pc |-> "matched", method |-> "legacy", device |-> d,
                                      on |-> c, era |-> 0]]
    BY <1>5 DEF MatchCode
  <2>2. c \in Codes /\ c \in Nat /\ "legacy" \in Methods
    BY <1>5 DEF Active, Codes, MatchCode
  <2> DEFINE x == [pc |-> "matched", method |-> "legacy", device |-> d, on |-> c, era |-> 0]
  <2>3. x \in RunType /\ Shaped(x)
    BY <2>2 DEF RunType, RunPcs, Shaped
  <2>4. run' \in [Runs -> RunType] /\ RunsShaped'
    BY <2>1, <2>3, OneRunMoves
  <2> QED
    BY <1>5, <2>4 DEF MatchCode, Typed, Types, IssuersShaped, memory, tables
<1> QED
  BY <1>2, <1>3, <1>4, <1>5

\* The steps of a run that change nothing but its place.
LEMMA TypedGoes ==
  ASSUME Typed, NEW r \in Runs,
         Lapse(r) \/ Burn(r) \/ CheckLive(r) \/ MatchMac(r) \/ ConfirmSetup(r)
  PROVE  Typed'
<1>0. run[r] \in RunType /\ Shaped(run[r])
  BY DEF Typed, Types, RunsShaped
<1>1. UNCHANGED <<memory, tables, checks, forgotten, era, excused, crashes>>
  BY DEF Lapse, Burn, CheckLive, MatchMac, ConfirmSetup
<1>2. ASSUME NEW pc \in {"burned", "live", "confirmed", "over"}, Goes(r, pc),
             run[r].pc # "idle",
             pc = "burned" => run[r].method \in {"cpace", "setup", "device"},
             pc = "live" => run[r].method = "cpace",
             pc = "confirmed" => run[r].method = "setup"
      PROVE  run' \in [Runs -> RunType] /\ RunsShaped'
  <2>1. pc \in RunPcs /\ Shaped([run[r] EXCEPT !.pc = pc])
    BY <1>0, <1>2 DEF RunPcs, RunType, Shaped
  <2> QED
    BY <1>2, <2>1, OneRunGoes
<1>3. run' \in [Runs -> RunType] /\ RunsShaped'
  <2>1. CASE Lapse(r)
    BY <1>2, <2>1 DEF Lapse
  <2>2. CASE Burn(r)
    BY <1>2, <2>2 DEF Burn, Pending
  <2>3. CASE CheckLive(r)
    BY <1>2, <2>3 DEF CheckLive
  <2>4. CASE ConfirmSetup(r)
    BY <1>2, <2>4 DEF ConfirmSetup
  <2>5. CASE MatchMac(r)
    <3>1. CASE Goes(r, "over")
      BY <1>2, <2>5, <3>1 DEF MatchMac
    <3>2. ASSUME NEW c \in Usable, run' = [run EXCEPT ![r].pc = "proved", ![r].on = c]
          PROVE  run' \in [Runs -> RunType] /\ RunsShaped'
      <4> DEFINE x == [run[r] EXCEPT !.pc = "proved", !.on = c]
      <4>1. c \in Codes /\ c \in Nat
        BY DEF Usable, Active, Codes
      <4>2. x \in RunType /\ Shaped(x)
        BY <1>0, <2>5, <4>1 DEF MatchMac, RunType, RunPcs, Shaped
      <4>3. run' = [run EXCEPT ![r] = x]
        BY <3>2
      <4> QED
        BY <4>2, <4>3, OneRunMoves
    <3> QED
      BY <2>5, <3>1, <3>2 DEF MatchMac
  <2> QED
    BY <2>1, <2>2, <2>3, <2>4, <2>5
<1> QED
  BY <1>1, <1>3 DEF Typed, Types, IssuersShaped, memory, tables

\* The steps of a run that write a table or a budget.
LEMMA TypedWrites ==
  ASSUME Typed, NEW r \in Runs,
         \/ Spend(r) \/ RetireSpent(r) \/ Consume(r) \/ BurnCode(r)
         \/ Latch(r) \/ RecordClaim(r) \/ Mint(r) \/ ResumeSession(r)
  PROVE  Typed'
<1>0. run[r] \in RunType /\ Shaped(run[r])
  BY DEF Typed, Types, RunsShaped
<1> DEFINE c == run[r].on
<1>1. ASSUME NEW pc \in {"proved", "retiring", "consumed", "latched", "paired", "over"}, Goes(r, pc),
             run[r].pc # "idle",
             pc \in {"proved", "retiring"} => run[r].method = "cpace",
             pc = "consumed" => run[r].method \in {"cpace", "hmac", "legacy"} /\ c \in Codes,
             pc = "latched" => run[r].method \in {"cpace", "hmac", "legacy", "setup"}
                               /\ (run[r].method # "setup" => c \in Codes),
             pc = "paired" => run[r].method \in {"cpace", "hmac", "legacy", "setup", "device"}
                              /\ (run[r].method \notin {"setup", "device"} => c \in Codes)
      PROVE  run' \in [Runs -> RunType] /\ RunsShaped'
  <2>1. pc \in RunPcs /\ Shaped([run[r] EXCEPT !.pc = pc])
    BY <1>0, <1>1 DEF RunPcs, RunType, Shaped
  <2> QED
    BY <1>1, <2>1, OneRunGoes
<1>2. CASE Spend(r)
  <2>1. run[r].method = "cpace" /\ c \in Codes /\ run[r].pc = "live"
    BY <1>0, <1>2, PairingAssumption DEF Spend, Shaped, RunType
  <2>2. run' \in [Runs -> RunType] /\ RunsShaped'
    BY <1>1, <1>2, <2>1 DEF Spend
  <2>3. attempts' \in [Codes -> 0..Budget] /\ checks' \in [Codes -> Nat]
    <3>1. attempts[c] \in 0..Budget /\ checks[c] \in Nat /\ Budget \in Nat
      BY <2>1, PairingAssumption DEF Typed, Types
    <3> QED
      BY <1>2, <2>1, <3>1 DEF Spend, Typed, Types
  <2> QED
    BY <1>2, <2>2, <2>3 DEF Spend, Typed, Types, IssuersShaped, tables
<1>3. CASE RetireSpent(r)
  <2>1. run[r].method = "cpace" /\ c \in Codes /\ run[r].pc = "retiring"
    BY <1>0, <1>3, PairingAssumption DEF RetireSpent, Shaped, RunType
  <2>2. run' \in [Runs -> RunType] /\ RunsShaped'
    BY <1>1, <1>3, <2>1 DEF RetireSpent
  <2>3. {c} \in SUBSET Codes /\ RetireCodes({c}) /\ Types
    BY <1>3, <2>1 DEF RetireSpent, Typed
  <2>4. /\ code' \in [Codes -> CodeStates] /\ cache' \subseteq Codes
        /\ attempts' \in [Codes -> 0..Budget]
    BY <2>3, RetireTypes
  <2> QED
    BY <1>3, <2>2, <2>4 DEF RetireSpent, Typed, Types, IssuersShaped
<1>4. CASE Consume(r)
  <2>1. run[r].method \in {"cpace", "hmac"} /\ c \in Codes /\ run[r].pc = "proved"
    BY <1>0, <1>4, PairingAssumption DEF Consume, Shaped, RunType
  <2>2. run' \in [Runs -> RunType] /\ RunsShaped'
    BY <1>1, <1>4, <2>1 DEF Consume
  <2>3. /\ code' \in [Codes -> CodeStates] /\ cache' \subseteq Codes
        /\ attempts' \in [Codes -> 0..Budget] /\ forgotten' \subseteq Codes
    BY <1>4, <2>1, PairingAssumption DEF Consume, Typed, Types, CodeStates
  <2> QED
    BY <1>4, <2>2, <2>3 DEF Consume, Typed, Types, IssuersShaped
<1>5. CASE BurnCode(r)
  <2>1. run[r].method = "legacy" /\ c \in Codes /\ run[r].pc = "matched"
    BY <1>0, <1>5, PairingAssumption DEF BurnCode, Shaped, RunType
  <2>2. run' \in [Runs -> RunType] /\ RunsShaped'
    BY <1>1, <1>5, <2>1 DEF BurnCode
  <2>3. code' \in [Codes -> CodeStates] /\ cache' \subseteq Codes
    BY <1>5, <2>1 DEF BurnCode, Typed, Types, CodeStates
  <2> QED
    BY <1>5, <2>2, <2>3 DEF BurnCode, Typed, Types, IssuersShaped
<1>6. CASE Latch(r)
  <2>1. /\ run[r].method \in {"cpace", "hmac", "legacy"} /\ c \in Codes /\ run[r].pc = "consumed"
        /\ run[r].device \in Devices
    BY <1>0, <1>6, PairingAssumption DEF Latch, Shaped, RunType
  <2>2. run' \in [Runs -> RunType] /\ RunsShaped'
    BY <1>1, <1>6, <2>1 DEF Latch
  <2>3. claim' \in Devices \cup {"none"}
    BY <1>6, <2>1 DEF Latch, Typed, Types
  <2>4. excused' \in BOOLEAN
    BY <1>6, Zenon DEF Latch, Typed, Types
  <2> QED
    BY <1>6, <2>2, <2>3, <2>4 DEF Latch, Typed, Types, IssuersShaped, memory
<1>7. CASE RecordClaim(r)
  <2>1. run[r].method = "setup" /\ run[r].pc = "confirmed" /\ run[r].device \in Devices
    BY <1>0, <1>7, PairingAssumption DEF RecordClaim, Shaped, RunType
  <2>2. run' \in [Runs -> RunType] /\ RunsShaped'
    <3>1. CASE Goes(r, "over")
      BY <1>1, <2>1, <3>1
    <3>2. CASE run' = [run EXCEPT ![r].pc = "latched", ![r].era = era]
      <4> DEFINE x == [run[r] EXCEPT !.pc = "latched", !.era = era]
      <4>0. era \in Nat
        BY DEF Typed, Types
      <4>1. x \in RunType /\ Shaped(x)
        BY <1>0, <2>1, <4>0 DEF RunType, RunPcs, Shaped
      <4>2. run' = [run EXCEPT ![r] = x]
        BY <3>2
      <4> QED
        BY <4>1, <4>2, OneRunMoves
    <3> QED
      BY <1>7, <3>1, <3>2 DEF RecordClaim
  <2>3. claim' \in Devices \cup {"none"}
    BY <1>7, <2>1 DEF RecordClaim, Typed, Types
  <2>4. excused' \in BOOLEAN
    BY <1>7, Zenon DEF RecordClaim, Typed, Types
  <2> QED
    BY <1>7, <2>2, <2>3, <2>4 DEF RecordClaim, Typed, Types, IssuersShaped, memory
<1>8. CASE Mint(r)
  <2>1. /\ run[r].method \in {"cpace", "hmac", "legacy", "setup"}
        /\ run[r].method # "setup" => c \in Codes
        /\ run[r].pc = "latched" /\ run[r].device \in Devices
    BY <1>0, <1>8, PairingAssumption DEF Mint, Shaped, RunType
  <2>2. run' \in [Runs -> RunType] /\ RunsShaped'
    BY <1>1, <1>8, <2>1 DEF Mint
  <2>3. token' \in [Tokens -> [device : Devices \cup {"none"}, live : BOOLEAN]]
    BY <1>8, <2>1, TokenTypes DEF Mint, Typed
  <2> QED
    BY <1>8, <2>2, <2>3 DEF Mint, Typed, Types, IssuersShaped, memory
<1>9. CASE ResumeSession(r)
  <2>1. run[r].method = "device" /\ run[r].pc = "burned" /\ c \in Tokens \cup {0}
    BY <1>0, <1>9 DEF ResumeSession, Shaped
  <2>2. run' \in [Runs -> RunType] /\ RunsShaped'
    BY <1>1, <1>9, <2>1 DEF ResumeSession
  <2>3. token' \in [Tokens -> [device : Devices \cup {"none"}, live : BOOLEAN]]
    <3>1. CASE UNCHANGED token
      BY <3>1 DEF Typed, Types
    <3>2. CASE c # 0 /\ RotateRefresh(c)
      <4>1. token[c].device \in Devices \cup {"none"}
        BY <2>1, <3>2 DEF Typed, Types
      <4> QED
        BY <3>2, <4>1, TokenTypes DEF RotateRefresh, Typed
    <3> QED
      BY <1>9, <3>1, <3>2 DEF ResumeSession
  <2> QED
    BY <1>9, <2>2, <2>3 DEF ResumeSession, Typed, Types, IssuersShaped, memory
<1> QED
  BY <1>2, <1>3, <1>4, <1>5, <1>6, <1>7, <1>8, <1>9

\* Every step keeps the types.
LEMMA TypedNext ==
  ASSUME Typed, [Next]_vars
  PROVE  Typed'
<1>1. ASSUME NEW t \in Tokens, Refresh(t) PROVE Typed'
  <2>1. token[t].device \in Devices \cup {"none"} /\ IssueSessionPair(token[t].device)
    BY <1>1 DEF Refresh, RotateRefresh, Typed, Types
  <2>2. token' \in [Tokens -> [device : Devices \cup {"none"}, live : BOOLEAN]]
    BY <2>1, TokenTypes DEF Typed
  <2> QED
    BY <1>1, <2>2 DEF Refresh, Typed, Types, RunsShaped, Shaped, IssuersShaped, memory
<1>2. ASSUME NEW d \in Devices, RevokeDevice(d) PROVE Typed'
  <2>1. token' \in [Tokens -> [device : Devices \cup {"none"}, live : BOOLEAN]]
    BY <1>2 DEF RevokeDevice, Typed, Types
  <2> QED
    BY <1>2, <2>1 DEF RevokeDevice, Typed, Types, RunsShaped, Shaped, IssuersShaped, memory
<1>3. CASE Rearm
  <2>1. era' \in 0..MaxRearms /\ claim' \in Devices \cup {"none"}
    BY <1>3, PairingAssumption DEF Rearm, Typed, Types
  <2>2. excused' \in BOOLEAN
    BY <1>3, Zenon DEF Rearm
  <2> QED
    BY <1>3, <2>1, <2>2 DEF Rearm, Typed, Types, RunsShaped, Shaped, IssuersShaped, memory
<1>4. CASE Crash
  <2>1. crashes' \in 0..MaxCrashes
    BY <1>4, PairingAssumption DEF Crash, Typed, Types
  <2>2. ASSUME NEW r \in Runs PROVE run'[r] \in RunType /\ Shaped(run'[r])
    <3>1. run[r] \in RunType /\ Shaped(run[r])
      BY DEF Typed, Types, RunsShaped
    <3>2. CASE run[r].pc \in {"idle", "paired"}
      BY <1>4, <3>1, <3>2 DEF Crash
    <3>3. CASE run[r].pc \notin {"idle", "paired"}
      <4>1. run'[r] = [run[r] EXCEPT !.pc = "over"]
        BY <1>4, <3>3 DEF Crash
      <4>2. [run[r] EXCEPT !.pc = "over"] \in RunType
        BY <3>1 DEF RunType, RunPcs
      <4>3. Shaped([run[r] EXCEPT !.pc = "over"])
        BY <3>1, <3>3 DEF RunType, Shaped
      <4> QED
        BY <4>1, <4>2, <4>3
    <3> QED
      BY <3>2, <3>3
  <2>3. run' \in [Runs -> RunType]
    BY <1>4, <2>2 DEF Crash
  <2>4. RunsShaped'
    BY <2>2 DEF RunsShaped, Shaped
  <2>5. /\ cache' \subseteq Codes /\ attempts' \in [Codes -> 0..Budget]
        /\ issuer' \in [Issuers -> [pc : {"idle", "read", "retired", "inserted"}, code : Nat,
                                    older : SUBSET Codes]]
        /\ IssuersShaped'
    BY <1>4, PairingAssumption DEF Crash, IssuersShaped
  <2> QED
    BY <1>4, <2>1, <2>3, <2>4, <2>5 DEF Crash, Typed, Types, tables
<1>5. CASE UNCHANGED vars
  BY <1>5 DEF vars, Typed, Types, RunsShaped, Shaped, IssuersShaped
<1> QED
  BY <1>1, <1>2, <1>3, <1>4, <1>5, TypedIssuers, TypedStarts, TypedGoes, TypedWrites
  DEF Next, RunStep

-----------------------------------------------------------------------------
(* Who moves, and how.                                                     *)

\* A run that goes to another place keeps what it holds; the other runs stay where they are.
LEMMA GoesMeans ==
  ASSUME Typed, NEW r \in Runs, NEW pc, Goes(r, pc)
  PROVE  /\ run'[r].pc = pc /\ run'[r].method = run[r].method /\ run'[r].device = run[r].device
         /\ run'[r].on = run[r].on /\ run'[r].era = run[r].era
         /\ \A q \in Runs : q # r => run'[q] = run[q]
BY DEF Typed, Types, RunType, Goes

\* A step of one run leaves the other runs as they are, and the run's method and device too once
\* it has begun.
LEMMA OthersStay ==
  ASSUME Typed, NEW r \in Runs, RunStep(r)
  PROVE  /\ \A q \in Runs : q # r => run'[q] = run[q]
         /\ run[r].pc # "idle" => run'[r].method = run[r].method /\ run'[r].device = run[r].device
<1>1. ASSUME NEW d \in Devices,
             \/ StartPairing(r, d) \/ StartSetup(r, d) \/ StartDevice(r, d)
             \/ InitHandshake(r, d) \/ MatchCode(r, d)
      PROVE  run[r].pc = "idle" /\ \A q \in Runs : q # r => run'[q] = run[q]
  BY <1>1 DEF StartPairing, StartSetup, StartDevice, InitHandshake, MatchCode, Start, Typed, Types
<1>2. CASE \E pc \in RunPcs : Goes(r, pc)
  BY <1>2, GoesMeans
<1>3. CASE MatchMac(r) /\ \E c \in Usable : run' = [run EXCEPT ![r].pc = "proved", ![r].on = c]
  BY <1>3 DEF Typed, Types, RunType
<1>4. CASE RecordClaim(r) /\ run' = [run EXCEPT ![r].pc = "latched", ![r].era = era]
  BY <1>4 DEF Typed, Types, RunType
<1>5. ASSUME \/ Lapse(r) \/ Burn(r) \/ CheckLive(r) \/ Spend(r) \/ RetireSpent(r) \/ MatchMac(r)
             \/ Consume(r) \/ BurnCode(r) \/ Latch(r) \/ ConfirmSetup(r) \/ RecordClaim(r)
             \/ Mint(r) \/ ResumeSession(r)
      PROVE  \/ \E pc \in RunPcs : Goes(r, pc)
             \/ MatchMac(r) /\ \E c \in Usable : run' = [run EXCEPT ![r].pc = "proved", ![r].on = c]
             \/ RecordClaim(r) /\ run' = [run EXCEPT ![r].pc = "latched", ![r].era = era]
  BY <1>5 DEF Lapse, Burn, CheckLive, Spend, RetireSpent, MatchMac, Consume, BurnCode, Latch,
              ConfirmSetup, RecordClaim, Mint, ResumeSession, RunPcs
<1> QED
  BY <1>1, <1>2, <1>3, <1>4, <1>5 DEF RunStep

-----------------------------------------------------------------------------
(* Tokens.                                                                 *)

\* A live pair belongs to a device, and no device has two.
Owned   == \A t \in Tokens : token[t].live => token[t].device \in Devices
OnePair == \A d \in Devices : \A t, u \in LiveOf(d) : t = u

\* What a step can do to the tokens: nothing; revoke a device's; mint the pair of a run that was
\* ready for it; or exchange a live pair for another of its device.
LEMMA TokenSteps ==
  ASSUME Typed, [Next]_vars
  PROVE  \/ UNCHANGED token
         \/ \E d \in Devices : RevokeDevice(d)
         \/ \E r \in Runs : Mint(r)
         \/ \E t \in Tokens : RotateRefresh(t)
<1>1. ASSUME NEW r \in Runs, ResumeSession(r)
      PROVE  UNCHANGED token \/ \E t \in Tokens : RotateRefresh(t)
  <2>1. run[r].on \in Tokens \cup {0}
    BY <1>1 DEF ResumeSession, Typed, RunsShaped, Shaped
  <2> QED
    BY <1>1, <2>1 DEF ResumeSession
<1>2. ASSUME NEW t \in Tokens, Refresh(t) PROVE RotateRefresh(t)
  BY <1>2 DEF Refresh
<1>3. ASSUME NEW r \in Runs, RunStep(r), ~Mint(r), ~ResumeSession(r) PROVE UNCHANGED token
  BY <1>3 DEF RunStep, StartPairing, StartSetup, StartDevice, InitHandshake, MatchCode, Start,
              Lapse, Burn, CheckLive, Spend, RetireSpent, MatchMac, Consume, BurnCode, Latch,
              ConfirmSetup, RecordClaim, tables
<1>4. ASSUME \/ \E i \in Issuers : IssueRead(i) \/ IssueRetire(i) \/ IssueInsert(i) \/ IssueCache(i)
             \/ \E c \in Codes : Expire(c)
             \/ Rearm \/ Crash \/ UNCHANGED vars
      PROVE  UNCHANGED token
  BY <1>4 DEF IssueRead, IssueRetire, IssueInsert, IssueCache, Expire, Rearm, Crash, vars, tables
<1> QED
  BY <1>1, <1>2, <1>3, <1>4 DEF Next

\* Minting a pair for a device leaves it with that pair alone, and the other devices with theirs.
LEMMA MintingKeepsOne ==
  ASSUME Typed, Owned, OnePair, NEW d \in Devices, IssueSessionPair(d)
  PROVE  Owned' /\ OnePair'
<1>1. PICK t \in Tokens \ Minted :
         token' = [k \in Tokens |-> IF k = t THEN [device |-> d, live |-> TRUE]
                                    ELSE IF k \in LiveOf(d) THEN [device |-> d, live |-> FALSE]
                                    ELSE token[k]]
  BY DEF IssueSessionPair
<1>2. Owned'
  BY <1>1 DEF Owned
<1>3. ASSUME NEW e \in Devices, NEW k \in Tokens, k \in LiveOf(e)'
      PROVE  IF k = t THEN e = d ELSE e # d /\ k \in LiveOf(e)
  BY <1>1, <1>3 DEF LiveOf, Typed, Types
<1>4. ASSUME NEW e \in Devices, NEW k \in Tokens, NEW u \in Tokens, k \in LiveOf(e)', u \in LiveOf(e)'
      PROVE  k = u
  <2>1. CASE e = d
    BY <1>3, <1>4, <2>1
  <2>2. CASE e # d
    BY <1>3, <1>4, <2>2 DEF OnePair
  <2> QED
    BY <2>1, <2>2
<1>5. \A e \in Devices : LiveOf(e)' \subseteq Tokens
  BY DEF LiveOf
<1> QED
  BY <1>2, <1>4, <1>5 DEF OnePair

LEMMA OnePairNext ==
  ASSUME Typed, Owned, OnePair, [Next]_vars
  PROVE  Owned' /\ OnePair'
<1>1. CASE UNCHANGED token
  BY <1>1 DEF Owned, OnePair, LiveOf
<1>2. ASSUME NEW d \in Devices, RevokeDevice(d) PROVE Owned' /\ OnePair'
  <2>1. Owned'
    BY <1>2 DEF RevokeDevice, Owned
  <2>2. ASSUME NEW e \in Devices PROVE LiveOf(e)' \subseteq LiveOf(e)
    BY <1>2 DEF RevokeDevice, LiveOf
  <2> QED
    BY <2>1, <2>2 DEF OnePair
<1>3. ASSUME NEW r \in Runs, Mint(r) PROVE Owned' /\ OnePair'
  <2>1. run[r].device \in Devices
    BY <1>3 DEF Mint, Typed, RunsShaped, Shaped
  <2> QED
    BY <1>3, <2>1, MintingKeepsOne DEF Mint
<1>4. ASSUME NEW t \in Tokens, RotateRefresh(t) PROVE Owned' /\ OnePair'
  BY <1>4, MintingKeepsOne DEF RotateRefresh, Owned
<1> QED
  BY <1>1, <1>2, <1>3, <1>4, TokenSteps

\* A session pair is born of a run that paired, or of a live pair that its birth retires.
LEMMA RotatesALivePair ==
  ASSUME Typed, Owned, [Next]_vars, NEW t \in Tokens, token[t].device = "none", token'[t].live
  PROVE  \/ \E r \in Runs : run[r].pc = "latched" /\ run'[r].pc = "paired"
         \/ \E k \in Tokens : token[k] = token'[t] /\ ~token'[k].live
<1>0. ~token[t].live /\ "none" \notin Devices
  BY PairingAssumption DEF Owned
<1>1. CASE UNCHANGED token
  BY <1>0, <1>1
<1>2. ASSUME NEW d \in Devices, RevokeDevice(d) PROVE FALSE
  BY <1>0, <1>2 DEF RevokeDevice
<1>3. ASSUME NEW r \in Runs, Mint(r) PROVE run[r].pc = "latched" /\ run'[r].pc = "paired"
  BY <1>3, GoesMeans DEF Mint
<1>4. ASSUME NEW k \in Tokens, RotateRefresh(k) PROVE token[k] = token'[t] /\ ~token'[k].live
  <2> DEFINE d == token[k].device
  <2>1. d \in Devices /\ k \in LiveOf(d) /\ token[k] = [device |-> d, live |-> TRUE]
    BY <1>4 DEF RotateRefresh, Owned, LiveOf, Typed, Types
  <2>2. PICK u \in Tokens \ Minted :
           token' = [j \in Tokens |-> IF j = u THEN [device |-> d, live |-> TRUE]
                                      ELSE IF j \in LiveOf(d) THEN [device |-> d, live |-> FALSE]
                                      ELSE token[j]]
    BY <1>4 DEF RotateRefresh, IssueSessionPair
  <2>3. u # k /\ u = t
    BY <1>0, <2>1, <2>2 DEF Minted
  <2> QED
    BY <2>1, <2>2, <2>3
<1> QED
  BY <1>1, <1>2, <1>3, <1>4, TokenSteps

-----------------------------------------------------------------------------
(* Runs waiting for their verify.                                          *)

PendingBounded == IsFiniteSet(Pending) /\ Cardinality(Pending) <= MaxPending

LEMMA PendingNext ==
  ASSUME Typed, PendingBounded, [Next]_vars
  PROVE  PendingBounded'
<1>1. CASE Pending' \subseteq Pending
  <2>1. IsFiniteSet(Pending') /\ Cardinality(Pending') <= Cardinality(Pending)
    BY <1>1, FS_Subset DEF PendingBounded
  <2>2. Cardinality(Pending) \in Nat /\ Cardinality(Pending') \in Nat
    BY <2>1, FS_CardinalityType DEF PendingBounded
  <2> QED
    BY <2>1, <2>2, PairingAssumption DEF PendingBounded
<1>2. ASSUME NEW r \in Runs, Pending' \subseteq Pending \cup {r}, Cardinality(Pending) < MaxPending
      PROVE  PendingBounded'
  <2>1. /\ IsFiniteSet(Pending \cup {r})
        /\ Cardinality(Pending \cup {r}) \in {Cardinality(Pending), Cardinality(Pending) + 1}
    BY FS_AddElement DEF PendingBounded
  <2>2. IsFiniteSet(Pending') /\ Cardinality(Pending') <= Cardinality(Pending \cup {r})
    BY <1>2, <2>1, FS_Subset
  <2>3. Cardinality(Pending) \in Nat /\ Cardinality(Pending') \in Nat
    BY <2>2, FS_CardinalityType DEF PendingBounded
  <2> QED
    BY <1>2, <2>1, <2>2, <2>3, PairingAssumption DEF PendingBounded
<1>3. ASSUME NEW r \in Runs, RunStep(r) PROVE PendingBounded'
  <2>1. Pending' \subseteq Pending \cup {r}
    BY <1>3, OthersStay DEF Pending
  <2>2. ASSUME NEW d \in Devices, StartPairing(r, d) \/ StartSetup(r, d) \/ StartDevice(r, d)
        PROVE  PendingBounded'
    BY <1>2, <2>1, <2>2 DEF StartPairing, StartSetup, StartDevice
  <2>3. ASSUME r \notin Pending' PROVE PendingBounded'
    BY <1>1, <2>1, <2>3
  <2>4. ASSUME NEW d \in Devices, InitHandshake(r, d) \/ MatchCode(r, d) PROVE r \notin Pending'
    BY <2>4 DEF InitHandshake, MatchCode, Start, Pending, Typed, Types
  <2>5. ASSUME NEW pc \in RunPcs \ {"pending"}, Goes(r, pc) PROVE r \notin Pending'
    BY <2>5, GoesMeans DEF Pending
  <2>6. ASSUME NEW c \in Usable, run' = [run EXCEPT ![r].pc = "proved", ![r].on = c]
        PROVE  r \notin Pending'
    BY <2>6 DEF Pending, Typed, Types, RunType
  <2>7. ASSUME run' = [run EXCEPT ![r].pc = "latched", ![r].era = era] PROVE r \notin Pending'
    BY <2>7 DEF Pending, Typed, Types, RunType
  <2>8. ASSUME \/ Lapse(r) \/ Burn(r) \/ CheckLive(r) \/ Spend(r) \/ RetireSpent(r) \/ MatchMac(r)
               \/ Consume(r) \/ BurnCode(r) \/ Latch(r) \/ ConfirmSetup(r) \/ RecordClaim(r)
               \/ Mint(r) \/ ResumeSession(r)
        PROVE  r \notin Pending'
    BY <2>5, <2>6, <2>7, <2>8
       DEF Lapse, Burn, CheckLive, Spend, RetireSpent, MatchMac, Consume, BurnCode, Latch,
           ConfirmSetup, RecordClaim, Mint, ResumeSession, RunPcs
  <2> QED
    BY <1>3, <2>2, <2>3, <2>4, <2>8 DEF RunStep
<1>4. CASE Crash
  BY <1>1, <1>4 DEF Crash, Pending, Typed, Types, RunType
<1>5. CASE UNCHANGED run
  BY <1>1, <1>5 DEF Pending
<1>6. ASSUME \/ \E i \in Issuers : IssueRead(i) \/ IssueRetire(i) \/ IssueInsert(i) \/ IssueCache(i)
             \/ \E c \in Codes : Expire(c)
             \/ \E t \in Tokens : Refresh(t)
             \/ \E d \in Devices : RevokeDevice(d)
             \/ Rearm \/ UNCHANGED vars
      PROVE  UNCHANGED run
  BY <1>6 DEF IssueRead, IssueRetire, IssueInsert, IssueCache, Expire, Refresh, RevokeDevice, Rearm, vars
<1> QED
  BY <1>3, <1>4, <1>5, <1>6 DEF Next

-----------------------------------------------------------------------------
(* The claim.                                                              *)

\* A run that took the card's claim took it in this arming or an earlier one; while its arming
\* lasts, the pond stays claimed.
CardHeld ==
  \A r \in Runs :
    run[r].method = "setup" /\ run[r].pc \in {"latched", "paired"} =>
      run[r].era <= era /\ (run[r].era = era => claim # "none")

\* CardClaimsOnce, run by run.
OneHolder ==
  \A r, s \in Runs :
    /\ run[r].method = "setup" /\ run[r].pc \in {"latched", "paired"}
    /\ run[s].method = "setup" /\ run[s].pc \in {"latched", "paired"}
    /\ run[r].era = run[s].era
    => r = s

\* From the moment a run may mint tokens, the pond is claimed or excused.
ClaimFirst ==
  Minted # {} \/ (\E r \in Runs : run[r].pc = "latched") => claim # "none" \/ excused

\* Where a run can have come from when it is ready to mint, or has minted.
LEMMA WaysToClaim ==
  ASSUME Typed, NEW r \in Runs, RunStep(r), run'[r].pc \in {"latched", "paired"}
  PROVE  Latch(r) \/ RecordClaim(r) \/ Mint(r) \/ ResumeSession(r)
<1>1. ASSUME NEW d \in Devices,
             \/ StartPairing(r, d) \/ StartSetup(r, d) \/ StartDevice(r, d)
             \/ InitHandshake(r, d) \/ MatchCode(r, d)
      PROVE  FALSE
  BY <1>1 DEF StartPairing, StartSetup, StartDevice, InitHandshake, MatchCode, Start, Typed, Types
<1>2. ASSUME NEW pc \in RunPcs \ {"latched", "paired"}, Goes(r, pc) PROVE FALSE
  BY <1>2, GoesMeans
<1>3. ASSUME NEW c \in Usable, run' = [run EXCEPT ![r].pc = "proved", ![r].on = c] PROVE FALSE
  BY <1>3 DEF Typed, Types, RunType
<1> QED
  BY <1>1, <1>2, <1>3 DEF RunStep, Lapse, Burn, CheckLive, Spend, RetireSpent, MatchMac, Consume,
                          BurnCode, ConfirmSetup, RunPcs

\* Who can change the claim: the run that latches or records it, and the operator.
LEMMA ClaimSteps ==
  ASSUME Typed, [Next]_vars
  PROVE  \/ UNCHANGED <<claim, era, excused>>
         \/ \E r \in Runs : Latch(r) \/ RecordClaim(r)
         \/ Rearm
BY DEF Next, RunStep, StartPairing, StartSetup, StartDevice, InitHandshake, MatchCode, Start, Lapse,
       Burn, CheckLive, Spend, RetireSpent, MatchMac, Consume, BurnCode, ConfirmSetup, Mint,
       ResumeSession, IssueRead, IssueRetire, IssueInsert, IssueCache, Expire, Refresh,
       RevokeDevice, Crash, vars, tables

\* Two runs never hold the card's claim of the same arming.
LEMMA CardHeldNext ==
  ASSUME Typed, CardHeld, OneHolder, [Next]_vars
  PROVE  CardHeld' /\ OneHolder'
<1> DEFINE Holds(x) == x.method = "setup" /\ x.pc \in {"latched", "paired"}
<1>0. /\ "none" \notin Devices
      /\ era \in Nat /\ \A q \in Runs : run[q].era \in Nat
  BY PairingAssumption DEF Typed, Types, RunType
<1>1. ASSUME \A q \in Runs : Holds(run'[q]) => Holds(run[q]) /\ run'[q].era = run[q].era,
             UNCHANGED era, claim # "none" => claim' # "none"
      PROVE  CardHeld' /\ OneHolder'
  <2>1. CardHeld'
    BY <1>1 DEF CardHeld
  <2>2. OneHolder'
    BY <1>1 DEF OneHolder
  <2> QED
    BY <2>1, <2>2
<1>2. CASE Rearm
  <2>1. CardHeld'
    <3>1. UNCHANGED run /\ era' = era + 1
      BY <1>2 DEF Rearm
    <3> SUFFICES ASSUME NEW q \in Runs, Holds(run[q]) PROVE run[q].era <= era + 1 /\ run[q].era # era + 1
      BY <3>1 DEF CardHeld
    <3>2. run[q].era <= era
      BY DEF CardHeld
    <3> QED
      BY <1>0, <3>2
  <2>2. OneHolder'
    BY <1>2 DEF Rearm, OneHolder
  <2> QED
    BY <2>1, <2>2
<1>3. CASE Crash
  <2>1. UNCHANGED <<claim, era>>
    BY <1>3 DEF Crash, tables
  <2>2. ASSUME NEW q \in Runs, Holds(run'[q]) PROVE Holds(run[q]) /\ run'[q].era = run[q].era
    BY <1>3, <2>2 DEF Crash, Typed, Types, RunType
  <2> QED
    BY <1>1, <2>1, <2>2
<1>4. ASSUME NEW r \in Runs, RunStep(r) PROVE CardHeld' /\ OneHolder'
  <2>0. \A q \in Runs : q # r => run'[q] = run[q]
    BY <1>4, OthersStay
  <2>1. CASE Latch(r)
    <3>1. run[r].method # "setup" /\ run[r].device \in Devices
      BY <2>1 DEF Latch, Typed, RunsShaped, Shaped
    <3>2. ~Holds(run'[r])
      BY <2>1, <3>1, GoesMeans DEF Latch
    <3>3. UNCHANGED era /\ (claim # "none" => claim' # "none")
      BY <2>1 DEF Latch
    <3> QED
      BY <1>1, <2>0, <3>2, <3>3
  <2>2. CASE RecordClaim(r) /\ Goes(r, "over")
    <3>1. ~Holds(run'[r])
      BY <2>2, GoesMeans
    <3>2. UNCHANGED era /\ (claim # "none" => claim' # "none")
      BY <2>2 DEF RecordClaim
    <3> QED
      BY <1>1, <2>0, <3>1, <3>2
  <2>3. CASE /\ RecordClaim(r) /\ claim = "none" /\ claim' = run[r].device
             /\ run' = [run EXCEPT ![r].pc = "latched", ![r].era = era]
    <3>1. claim' # "none" /\ UNCHANGED era
      BY <1>0, <2>3 DEF RecordClaim, Typed, RunsShaped, Shaped
    <3>2. run'[r].era = era
      BY <2>3 DEF Typed, Types, RunType
    <3>3. \A q \in Runs : q # r /\ Holds(run'[q]) => run'[q].era < era
      <4> SUFFICES ASSUME NEW q \in Runs, q # r, Holds(run[q]) PROVE run[q].era < era
        BY <2>0
      <4>1. run[q].era <= era /\ run[q].era # era
        BY <2>3 DEF CardHeld
      <4> QED
        BY <1>0, <4>1
    <3>4. CardHeld'
      <4> SUFFICES ASSUME NEW q \in Runs, Holds(run'[q]) PROVE run'[q].era <= era
        BY <3>1 DEF CardHeld
      <4>1. CASE q = r
        BY <1>0, <3>2, <4>1
      <4>2. CASE q # r
        BY <1>0, <2>0, <3>3, <4>2
      <4> QED
        BY <4>1, <4>2
    <3>5. OneHolder'
      <4>1. SUFFICES ASSUME NEW q \in Runs, NEW s \in Runs, q # s, Holds(run'[q]), Holds(run'[s])
                     PROVE  run'[q].era # run'[s].era
        BY DEF OneHolder
      <4>2. CASE q = r \/ s = r
        BY <1>0, <2>0, <3>2, <3>3, <4>1, <4>2
      <4>3. CASE q # r /\ s # r
        BY <2>0, <4>1, <4>3 DEF OneHolder
      <4> QED
        BY <4>2, <4>3
    <3> QED
      BY <3>4, <3>5
  <2>4. CASE Mint(r) \/ ResumeSession(r)
    <3>1. Holds(run'[r]) => Holds(run[r]) /\ run'[r].era = run[r].era
      <4>1. CASE Mint(r)
        BY <4>1, GoesMeans DEF Mint
      <4>2. CASE ResumeSession(r)
        BY <4>2, GoesMeans DEF ResumeSession
      <4> QED
        BY <2>4, <4>1, <4>2
    <3>2. UNCHANGED <<era, claim>>
      BY <2>4 DEF Mint, ResumeSession
    <3> QED
      BY <1>1, <2>0, <3>1, <3>2
  <2>5. CASE run'[r].pc \notin {"latched", "paired"} /\ ~Latch(r) /\ ~RecordClaim(r)
    <3>1. UNCHANGED <<era, claim>>
      BY <1>4, <2>5 DEF RunStep, StartPairing, StartSetup, StartDevice, InitHandshake, MatchCode,
             Start, Lapse, Burn, CheckLive, Spend, RetireSpent, MatchMac, Consume, BurnCode,
             ConfirmSetup, Mint, ResumeSession, tables
    <3> QED
      BY <1>1, <2>0, <2>5, <3>1
  <2>6. RecordClaim(r) => \/ Goes(r, "over")
                          \/ /\ claim = "none" /\ claim' = run[r].device
                             /\ run' = [run EXCEPT ![r].pc = "latched", ![r].era = era]
    BY DEF RecordClaim
  <2> QED
    BY <1>4, <2>1, <2>2, <2>3, <2>4, <2>5, <2>6, WaysToClaim
<1>5. CASE UNCHANGED <<run, claim, era>>
  BY <1>1, <1>5
<1>6. ASSUME \/ \E i \in Issuers : IssueRead(i) \/ IssueRetire(i) \/ IssueInsert(i) \/ IssueCache(i)
             \/ \E c \in Codes : Expire(c)
             \/ \E t \in Tokens : Refresh(t)
             \/ \E d \in Devices : RevokeDevice(d)
             \/ UNCHANGED vars
      PROVE  UNCHANGED <<run, claim, era>>
  BY <1>6 DEF IssueRead, IssueRetire, IssueInsert, IssueCache, Expire, Refresh, RevokeDevice, vars
<1> QED
  BY <1>2, <1>3, <1>4, <1>5, <1>6 DEF Next

\* The claim comes before the tokens.
LEMMA ClaimFirstNext ==
  ASSUME Typed, Owned, ClaimFirst, [Next]_vars
  PROVE  ClaimFirst'
<1> DEFINE Ready(x)  == x.pc = "latched"
           Covered == claim # "none" \/ excused
<1>0. "none" \notin Devices
  BY PairingAssumption
<1>1. ASSUME NEW r \in Runs, Latch(r) \/ RecordClaim(r) PROVE ClaimFirst'
  <2>1. run[r].device \in Devices /\ run[r].pc # "latched"
    BY <1>1 DEF Latch, RecordClaim, Typed, RunsShaped, Shaped
  <2>2. CASE Covered'
    BY <2>2 DEF ClaimFirst
  <2>3. CASE RecordClaim(r) /\ Goes(r, "over") /\ UNCHANGED <<claim, excused>>
    <3>1. UNCHANGED token
      BY <2>3 DEF RecordClaim
    <3>2. \A q \in Runs : Ready(run'[q]) => Ready(run[q])
      BY <2>3, GoesMeans
    <3> QED
      BY <2>3, <3>1, <3>2 DEF ClaimFirst, Minted
  <2> QED
    BY <1>0, <1>1, <2>1, <2>2, <2>3 DEF Latch, RecordClaim
<1>2. CASE Rearm
  BY <1>2 DEF Rearm, ClaimFirst
<1>3. CASE UNCHANGED <<claim, era, excused>> /\ ~\E r \in Runs : Latch(r) \/ RecordClaim(r)
  <2>1. SUFFICES ASSUME ~Covered PROVE ~(Minted' # {}) /\ \A r \in Runs : ~Ready(run'[r])
    BY <1>3 DEF ClaimFirst
  <2>2. Minted = {} /\ \A r \in Runs : ~Ready(run[r])
    BY <2>1 DEF ClaimFirst
  <2>3. UNCHANGED token
    <3>1. \A t \in Tokens : token[t].device = "none" /\ ~token[t].live
      BY <1>0, <2>2 DEF Minted, Owned
    <3>2. ~\E d \in Devices : RevokeDevice(d)
      <4>1. ASSUME NEW d \in Devices, NEW t \in LiveOf(d) PROVE FALSE
        <5>1. t \in Tokens /\ token[t].device = d
          BY DEF LiveOf
        <5> QED
          BY <1>0, <3>1, <5>1
      <4> QED
        BY <4>1 DEF RevokeDevice
    <3>3. ~\E r \in Runs : Mint(r)
      BY <2>2 DEF Mint
    <3>4. ~\E t \in Tokens : RotateRefresh(t)
      BY <3>1 DEF RotateRefresh
    <3> QED
      BY <3>2, <3>3, <3>4, TokenSteps
  <2>4. ASSUME NEW q \in Runs, Ready(run'[q]) PROVE FALSE
    <3>1. CASE \E r \in Runs : RunStep(r)
      <4>1. PICK r \in Runs : RunStep(r)
        BY <3>1
      <4>2. q = r
        BY <2>2, <2>4, <4>1, OthersStay
      <4>3. Mint(r) \/ ResumeSession(r)
        BY <1>3, <2>4, <4>1, <4>2, WaysToClaim
      <4> QED
        BY <2>4, <4>2, <4>3, GoesMeans DEF Mint, ResumeSession
    <3>2. CASE Crash
      BY <2>4, <3>2 DEF Crash, Typed, Types, RunType
    <3>3. CASE UNCHANGED run
      BY <2>2, <2>4, <3>3
    <3>4. ASSUME ~(\E r \in Runs : RunStep(r)), ~Crash PROVE UNCHANGED run
      BY <3>4 DEF Next, IssueRead, IssueRetire, IssueInsert, IssueCache, Expire, Refresh,
                  RevokeDevice, Rearm, vars
    <3> QED
      BY <3>1, <3>2, <3>3, <3>4
  <2> QED
    BY <2>2, <2>3, <2>4 DEF Minted
<1> QED
  BY <1>1, <1>2, <1>3, ClaimSteps

-----------------------------------------------------------------------------
(* Codes and their budgets.                                                *)

Fresh == {c \in Codes : code[c] \in {"none", "promised"}}

\* The code an issuer is about to write was promised to it alone; what it has written stays so.
PromisesKept ==
  \A i \in Issuers :
    /\ issuer[i].pc \in {"read", "retired"} => code[issuer[i].code] = "promised"
    /\ issuer[i].pc = "inserted" => issuer[i].code \notin Fresh

PromisesApart ==
  \A i, j \in Issuers :
    issuer[i].pc # "idle" /\ issuer[j].pc # "idle" /\ issuer[i].code = issuer[j].code => i = j

\* A run names a code that was issued, and one that went through by a proof has consumed it.
NamesACode(x) == \/ x.method \in {"cpace", "legacy"}
                 \/ x.method = "hmac" /\ x.pc \notin {"pending", "over"}

NamesIssued == \A r \in Runs : NamesACode(run[r]) => run[r].on \notin Fresh

WentThrough(x) == x.method \in {"cpace", "hmac"} /\ x.pc \in {"consumed", "latched", "paired"}

ProofConsumes == \A r \in Runs : WentThrough(run[r]) => code[run[r].on] = "consumed"

\* ProofPairsOnce, run by run.
OneProof == \A r, s \in Runs : WentThrough(run[r]) /\ WentThrough(run[s]) /\ run[r].on = run[s].on => r = s

\* A code no attempt can be spent on any more: its plaintext is gone, nobody is about to keep it,
\* and no run is on its way to the check.
OnTheWay(x) == x.method = "cpace" /\ x.pc \in {"pending", "burned", "live"}

Orphan(c) ==
  /\ c \notin cache
  /\ \A i \in Issuers : issuer[i].pc = "inserted" => issuer[i].code # c
  /\ \A r \in Runs : OnTheWay(run[r]) => run[r].on # c

\* The budget in memory bounds the checks of an issued code until complete_pairing takes it up; a
\* restart clears the budget and orphans every code.
ChecksCounted ==
  \A c \in Codes :
    /\ c \notin forgotten => checks[c] <= Budget
    /\ c \in Fresh => checks[c] = 0
    /\ c \notin Fresh \cup forgotten => checks[c] <= attempts[c] \/ Orphan(c)

Ledger == PromisesKept /\ PromisesApart /\ NamesIssued /\ ProofConsumes /\ OneProof

\* What a step can do to a code: promise it, issue it for the one it was promised to, or take an
\* issued one back; a consumed code stays consumed.
LEMMA CodeSteps ==
  ASSUME Typed, PromisesKept, NamesIssued, [Next]_vars, NEW c \in Codes
  PROVE  \/ code'[c] = code[c]
         \/ code[c] = "none" /\ code'[c] = "promised"
         \/ /\ code[c] = "promised" /\ code'[c] = "active"
            /\ \E i \in Issuers : IssueInsert(i) /\ issuer[i].code = c
         \/ /\ c \notin Fresh /\ code'[c] \in {"retired", "consumed"}
            /\ code[c] = "consumed" => code'[c] = "consumed"
<1> DEFINE Taken == /\ c \notin Fresh /\ code'[c] \in {"retired", "consumed"}
                    /\ code[c] = "consumed" => code'[c] = "consumed"
<1>1. ASSUME NEW cs, RetireCodes(cs) PROVE code'[c] = code[c] \/ Taken
  BY <1>1 DEF RetireCodes, Fresh
<1>2. ASSUME NEW i \in Issuers, IssueRead(i)
      PROVE  code'[c] = code[c] \/ (code[c] = "none" /\ code'[c] = "promised")
  BY <1>2 DEF IssueRead, Typed, Types
<1>3. ASSUME NEW i \in Issuers, IssueInsert(i), code'[c] # code[c]
      PROVE  code[c] = "promised" /\ code'[c] = "active" /\ issuer[i].code = c
  BY <1>3 DEF IssueInsert, Typed, Types, PromisesKept
<1>4. ASSUME NEW k \in Codes, Expire(k) PROVE code'[c] = code[c] \/ Taken
  BY <1>4 DEF Expire, Fresh, Typed, Types
<1>5. ASSUME NEW r \in Runs, Consume(r) PROVE code'[c] = code[c] \/ Taken
  BY <1>5 DEF Consume, Active, Fresh, Typed, Types
<1>6. ASSUME NEW r \in Runs, BurnCode(r) PROVE code'[c] = code[c] \/ Taken
  <2>1. run[r].method = "legacy"
    BY <1>6, PairingAssumption DEF BurnCode, Typed, Types, RunType, RunsShaped, Shaped
  <2>2. run[r].on \notin Fresh
    BY <2>1 DEF NamesIssued, NamesACode
  <2> QED
    BY <1>6, <2>2 DEF BurnCode, Typed, Types
<1>7. ASSUME NEW r \in Runs, RunStep(r), ~RetireSpent(r), ~Consume(r), ~BurnCode(r)
      PROVE  UNCHANGED code
  BY <1>7 DEF RunStep, StartPairing, StartSetup, StartDevice, InitHandshake, MatchCode, Start,
              Lapse, Burn, CheckLive, Spend, MatchMac, Latch, ConfirmSetup, RecordClaim, Mint,
              ResumeSession, tables
<1>8. ASSUME \/ \E i \in Issuers : IssueCache(i)
             \/ \E t \in Tokens : Refresh(t)
             \/ \E d \in Devices : RevokeDevice(d)
             \/ Rearm \/ Crash \/ UNCHANGED vars
      PROVE  UNCHANGED code
  BY <1>8 DEF IssueCache, Refresh, RevokeDevice, Rearm, Crash, vars, tables
<1>9. ASSUME \/ \E i \in Issuers : IssueRetire(i)
             \/ \E r \in Runs : RetireSpent(r)
      PROVE  \E cs : RetireCodes(cs)
  BY <1>9 DEF IssueRetire, RetireSpent
<1> QED
  BY <1>1, <1>2, <1>3, <1>4, <1>5, <1>6, <1>7, <1>8, <1>9 DEF Next

\* Only issuers, and a restart, change what issuers hold.
LEMMA IssuerSteps ==
  ASSUME [Next]_vars
  PROVE  \/ UNCHANGED issuer
         \/ \E i \in Issuers : IssueRead(i) \/ IssueRetire(i) \/ IssueInsert(i) \/ IssueCache(i)
         \/ Crash
BY DEF Next, RunStep, StartPairing, StartSetup, StartDevice, InitHandshake, MatchCode, Start, Lapse,
       Burn, CheckLive, Spend, RetireSpent, MatchMac, Consume, BurnCode, Latch, ConfirmSetup,
       RecordClaim, Mint, ResumeSession, Expire, Refresh, RevokeDevice, Rearm, vars, memory

\* No two issuers write the same code, however their reads and writes interleave.
LEMMA PromisesNext ==
  ASSUME Typed, PromisesKept, PromisesApart, NamesIssued, [Next]_vars
  PROVE  PromisesKept' /\ PromisesApart'
<1> DEFINE Kept(x, cd) == /\ x.pc \in {"read", "retired"} => cd[x.code] = "promised"
                          /\ x.pc = "inserted" => cd[x.code] \notin {"none", "promised"}
<1>0. /\ \A i \in Issuers : issuer[i].pc # "idle" => issuer[i].code \in Codes
      /\ \A i \in Issuers : Kept(issuer[i], code)
  BY DEF Typed, IssuersShaped, PromisesKept, Fresh
<1>a. SUFFICES (\A i \in Issuers : Kept(issuer'[i], code')) /\ PromisesApart'
  BY DEF PromisesKept, Fresh
<1>1. ASSUME NEW i \in Issuers, ~IssueInsert(i) PROVE Kept(issuer[i], code')
  <2>1. CASE issuer[i].pc = "idle"
    BY <2>1
  <2>2. CASE issuer[i].pc = "inserted"
    BY <1>0, <2>2, CodeSteps DEF Fresh
  <2>3. CASE issuer[i].pc \in {"read", "retired"}
    <3>1. issuer[i].code \in Codes /\ code[issuer[i].code] = "promised" /\ issuer[i].code \in Fresh
      BY <1>0, <2>3 DEF Fresh
    <3>2. ASSUME NEW j \in Issuers, IssueInsert(j) PROVE issuer[j].code # issuer[i].code
      BY <1>1, <2>3, <3>2 DEF PromisesApart, IssueInsert
    <3> QED
      BY <2>3, <3>1, <3>2, CodeSteps
  <2> QED
    BY <2>1, <2>2, <2>3 DEF Typed, Types
<1>2. CASE UNCHANGED issuer
  <2>1. \A i \in Issuers : ~IssueInsert(i)
    BY <1>2 DEF IssueInsert, Typed, Types
  <2> QED
    BY <1>1, <1>2, <2>1 DEF PromisesApart
<1>3. ASSUME NEW i \in Issuers, IssueRead(i) PROVE (\A j \in Issuers : Kept(issuer'[j], code')) /\ PromisesApart'
  <2>1. PICK c \in Codes : /\ code[c] = "none" /\ code' = [code EXCEPT ![c] = "promised"]
                           /\ issuer' = [issuer EXCEPT ![i] = [pc |-> "read", code |-> c, older |-> Active]]
    BY <1>3 DEF IssueRead
  <2>2. issuer'[i].pc = "read" /\ issuer'[i].code = c /\ code'[c] = "promised"
    BY <2>1 DEF Typed, Types
  <2>3. \A j \in Issuers : j # i => /\ issuer'[j] = issuer[j]
                                    /\ issuer[j].pc # "idle" => issuer[j].code # c
    BY <1>0, <2>1 DEF Typed, Types
  <2>4. \A j \in Issuers : j # i => Kept(issuer'[j], code')
    BY <1>0, <2>1, <2>3 DEF Typed, Types
  <2>5. PromisesApart'
    BY <2>2, <2>3 DEF PromisesApart
  <2> QED
    BY <2>2, <2>4, <2>5
<1>4. ASSUME NEW i \in Issuers, IssueRetire(i) PROVE (\A j \in Issuers : Kept(issuer'[j], code')) /\ PromisesApart'
  <2>1. /\ issuer'[i].pc = "retired" /\ issuer'[i].code = issuer[i].code /\ issuer[i].pc = "read"
        /\ \A j \in Issuers : j # i => issuer'[j] = issuer[j]
    BY <1>4 DEF IssueRetire, Typed, Types
  <2>2. \A j \in Issuers : ~IssueInsert(j)
    BY <1>4, <2>1 DEF IssueInsert, Typed, Types
  <2>3. \A j \in Issuers : Kept(issuer'[j], code')
    BY <1>1, <2>1, <2>2
  <2>4. PromisesApart'
    BY <2>1 DEF PromisesApart
  <2> QED
    BY <2>3, <2>4
<1>5. ASSUME NEW i \in Issuers, IssueInsert(i) PROVE (\A j \in Issuers : Kept(issuer'[j], code')) /\ PromisesApart'
  <2>1. /\ issuer'[i].pc = "inserted" /\ issuer'[i].code = issuer[i].code /\ issuer[i].pc = "retired"
        /\ \A j \in Issuers : j # i => issuer'[j] = issuer[j]
    BY <1>5 DEF IssueInsert, Typed, Types
  <2>2. \A j \in Issuers : j # i => ~IssueInsert(j)
    BY <1>5, <2>1 DEF IssueInsert, Typed, Types
  <2>3. Kept(issuer'[i], code')
    BY <1>0, <1>5, <2>1 DEF IssueInsert, Typed, Types
  <2>4. \A j \in Issuers : j # i => Kept(issuer'[j], code')
    BY <1>1, <2>1, <2>2
  <2>5. PromisesApart'
    BY <2>1 DEF PromisesApart
  <2> QED
    BY <2>3, <2>4, <2>5
<1>6. ASSUME NEW i \in Issuers, IssueCache(i) PROVE (\A j \in Issuers : Kept(issuer'[j], code')) /\ PromisesApart'
  <2>1. /\ issuer'[i].pc = "idle" /\ issuer[i].pc = "inserted"
        /\ \A j \in Issuers : j # i => issuer'[j] = issuer[j]
    BY <1>6 DEF IssueCache, Typed, Types
  <2>2. \A j \in Issuers : j # i => ~IssueInsert(j)
    BY <1>6, <2>1 DEF IssueInsert, IssueCache, Typed, Types
  <2>3. \A j \in Issuers : Kept(issuer'[j], code')
    BY <1>1, <2>1, <2>2
  <2>4. PromisesApart'
    BY <2>1 DEF PromisesApart
  <2> QED
    BY <2>3, <2>4
<1>7. CASE Crash
  <2>1. \A j \in Issuers : issuer'[j].pc = "idle"
    BY <1>7 DEF Crash
  <2> QED
    BY <2>1 DEF PromisesApart
<1> QED
  BY <1>2, <1>3, <1>4, <1>5, <1>6, <1>7, IssuerSteps

\* A run comes to name a code by finding it active.
LEMMA NamesStep ==
  ASSUME Typed, NamesIssued, NEW r \in Runs, RunStep(r), NamesACode(run'[r])
  PROVE  run'[r].on \notin Fresh
<1>1. ASSUME NEW d \in Devices, StartPairing(r, d) PROVE run'[r].on \notin Fresh
  <2>1. Active \in SUBSET (1..MaxCodes) /\ MaxCodes \in Nat /\ Active # {}
    BY <1>1, PairingAssumption DEF StartPairing, Active, Codes
  <2>2. Max(Active) \in Active
    BY <2>1, MaxIsAmong
  <2>3. run'[r].on = Max(Active)
    BY <1>1 DEF StartPairing, Start, Typed, Types
  <2> QED
    BY <2>2, <2>3 DEF Active, Fresh
<1>2. ASSUME NEW d \in Devices, StartSetup(r, d) \/ StartDevice(r, d) \/ InitHandshake(r, d) PROVE FALSE
  BY <1>2 DEF StartSetup, StartDevice, InitHandshake, Start, NamesACode, Typed, Types
<1>3. ASSUME NEW d \in Devices, MatchCode(r, d) PROVE run'[r].on \notin Fresh
  BY <1>3 DEF MatchCode, Active, Fresh, Typed, Types
<1>4. ASSUME NEW pc \in RunPcs, Goes(r, pc), run[r].method = "hmac" => run[r].pc # "pending" \/ pc = "over",
             run[r].pc # "over"
      PROVE  run'[r].on \notin Fresh
  BY <1>4, GoesMeans DEF NamesACode, NamesIssued
<1>5. ASSUME NEW c \in Usable, run' = [run EXCEPT ![r].pc = "proved", ![r].on = c]
      PROVE  run'[r].on \notin Fresh
  BY <1>5 DEF Usable, Active, Fresh, Typed, Types, RunType
<1>6. ASSUME run' = [run EXCEPT ![r].pc = "latched", ![r].era = era], RecordClaim(r) PROVE FALSE
  <2>1. run[r].method = "setup"
    BY <1>6, PairingAssumption DEF RecordClaim, Typed, Types, RunType, RunsShaped, Shaped
  <2> QED
    BY <1>6, <2>1 DEF NamesACode, Typed, Types, RunType
<1>7. ASSUME \/ Lapse(r) \/ Burn(r) \/ CheckLive(r) \/ Spend(r) \/ RetireSpent(r) \/ MatchMac(r)
             \/ Consume(r) \/ BurnCode(r) \/ Latch(r) \/ ConfirmSetup(r) \/ RecordClaim(r)
             \/ Mint(r) \/ ResumeSession(r)
      PROVE  run'[r].on \notin Fresh
  BY <1>4, <1>5, <1>6, <1>7
     DEF Lapse, Burn, Pending, CheckLive, Spend, RetireSpent, MatchMac, Consume, BurnCode, Latch,
         ConfirmSetup, RecordClaim, Mint, ResumeSession, RunPcs
<1> QED
  BY <1>1, <1>2, <1>3, <1>7 DEF RunStep

\* A proved run goes through only by consuming its code.
LEMMA ThroughStep ==
  ASSUME Typed, NEW r \in Runs, RunStep(r), WentThrough(run'[r])
  PROVE  /\ run'[r].on = run[r].on
         /\ WentThrough(run[r]) \/ (Consume(r) /\ run[r].on \in Active)
<1>1. ASSUME NEW d \in Devices,
             \/ StartPairing(r, d) \/ StartSetup(r, d) \/ StartDevice(r, d)
             \/ InitHandshake(r, d) \/ MatchCode(r, d)
      PROVE  FALSE
  BY <1>1 DEF StartPairing, StartSetup, StartDevice, InitHandshake, MatchCode, Start, WentThrough,
              Typed, Types
<1>2. ASSUME NEW pc \in RunPcs \ {"consumed", "latched", "paired"}, Goes(r, pc) PROVE FALSE
  BY <1>2, GoesMeans DEF WentThrough
<1>3. ASSUME NEW c \in Usable, run' = [run EXCEPT ![r].pc = "proved", ![r].on = c] PROVE FALSE
  BY <1>3 DEF WentThrough, Typed, Types, RunType
<1>4. ASSUME Lapse(r) \/ Burn(r) \/ CheckLive(r) \/ Spend(r) \/ RetireSpent(r) \/ MatchMac(r) \/ ConfirmSetup(r)
      PROVE  FALSE
  BY <1>2, <1>3, <1>4 DEF Lapse, Burn, CheckLive, Spend, RetireSpent, MatchMac, ConfirmSetup, RunPcs
<1>5. CASE Consume(r)
  <2>1. run[r].on \in Active
    BY <1>2, <1>5 DEF Consume, RunPcs
  <2> QED
    BY <1>5, <2>1, GoesMeans DEF Consume
<1>6. CASE Latch(r) \/ Mint(r)
  BY <1>6, GoesMeans DEF Latch, Mint, WentThrough
<1>7. CASE BurnCode(r)
  <2>1. run[r].method = "legacy"
    BY <1>7, PairingAssumption DEF BurnCode, Typed, Types, RunType, RunsShaped, Shaped
  <2> QED
    BY <1>7, <2>1, GoesMeans DEF BurnCode, WentThrough
<1>8. CASE RecordClaim(r) \/ ResumeSession(r)
  <2>1. run[r].method \in {"setup", "device"} /\ run[r].pc # "idle"
    BY <1>8, PairingAssumption DEF RecordClaim, ResumeSession, Typed, Types, RunType, RunsShaped, Shaped
  <2> QED
    BY <2>1, OthersStay DEF WentThrough
<1> QED
  BY <1>1, <1>4, <1>5, <1>6, <1>7, <1>8 DEF RunStep

\* A code proved by one run is out of the others' reach.
LEMMA LedgerNext ==
  ASSUME Typed, Ledger, [Next]_vars
  PROVE  Ledger'
<1> USE DEF Ledger
<1>1. PromisesKept' /\ PromisesApart'
  BY PromisesNext
<1>2. ASSUME NEW c \in Codes PROVE /\ c \notin Fresh => c \notin Fresh'
                                   /\ code[c] = "consumed" => code'[c] = "consumed"
  BY CodeSteps DEF Fresh
<1>3. Fresh \subseteq Codes /\ Fresh' \subseteq Codes
  BY DEF Fresh
<1>4. \A r \in Runs : WentThrough(run[r]) => run[r].on \in Codes
  BY DEF WentThrough, Typed, RunsShaped, Shaped
<1>5. ASSUME \A q \in Runs : /\ NamesACode(run'[q]) => run'[q].on \notin Fresh
                             /\ WentThrough(run'[q]) => WentThrough(run[q]) /\ run'[q].on = run[q].on
      PROVE  NamesIssued' /\ ProofConsumes' /\ OneProof'
  <2>1. NamesIssued'
    BY <1>2, <1>3, <1>5 DEF NamesIssued, NamesACode
  <2>2. ProofConsumes'
    BY <1>2, <1>4, <1>5 DEF ProofConsumes, WentThrough
  <2>3. OneProof'
    BY <1>5 DEF OneProof, WentThrough
  <2> QED
    BY <2>1, <2>2, <2>3
<1>6. CASE UNCHANGED run
  BY <1>1, <1>5, <1>6 DEF NamesIssued
<1>7. CASE Crash
  <2>1. ASSUME NEW q \in Runs
        PROVE  /\ NamesACode(run'[q]) => run'[q].on \notin Fresh
               /\ WentThrough(run'[q]) => WentThrough(run[q]) /\ run'[q].on = run[q].on
    <3>1. CASE run[q].pc \in {"idle", "paired"}
      BY <1>7, <3>1 DEF Crash, NamesIssued
    <3>2. CASE run[q].pc \notin {"idle", "paired"}
      <4>1. run'[q].pc = "over" /\ run'[q].method = run[q].method /\ run'[q].on = run[q].on
        BY <1>7, <3>2 DEF Crash, Typed, Types, RunType
      <4> QED
        BY <4>1 DEF NamesACode, WentThrough, NamesIssued
    <3> QED
      BY <3>1, <3>2
  <2> QED
    BY <1>1, <1>5, <2>1
<1>8. ASSUME NEW r \in Runs, RunStep(r) PROVE NamesIssued' /\ ProofConsumes' /\ OneProof'
  <2>0. \A q \in Runs : q # r => run'[q] = run[q]
    BY <1>8, OthersStay
  <2>1. \A q \in Runs : NamesACode(run'[q]) => run'[q].on \notin Fresh
    BY <1>8, <2>0, NamesStep DEF NamesIssued
  <2>2. CASE ~(WentThrough(run'[r]) /\ Consume(r) /\ run[r].on \in Active)
    BY <1>5, <1>8, <2>0, <2>1, <2>2, ThroughStep
  <2>3. CASE WentThrough(run'[r]) /\ Consume(r) /\ run[r].on \in Active
    <3> DEFINE c == run[r].on
    <3>1. code[c] = "active" /\ code'[c] = "consumed" /\ run'[r].on = c /\ c \in Codes
      BY <1>8, <2>3, ThroughStep DEF Consume, Active, Typed, Types
    <3>2. \A q \in Runs : q # r /\ WentThrough(run[q]) => run[q].on # c
      BY <3>1 DEF ProofConsumes
    <3>3. NamesIssued'
      BY <1>2, <1>3, <2>1 DEF NamesIssued, NamesACode
    <3>4. ProofConsumes'
      BY <1>2, <1>4, <2>0, <3>1 DEF ProofConsumes, WentThrough
    <3>5. OneProof'
      BY <2>0, <3>1, <3>2 DEF OneProof, WentThrough
    <3> QED
      BY <3>3, <3>4, <3>5
  <2> QED
    BY <2>2, <2>3
<1>9. ASSUME ~(\E r \in Runs : RunStep(r)), ~Crash PROVE UNCHANGED run
  BY <1>9 DEF Next, IssueRead, IssueRetire, IssueInsert, IssueCache, Expire, Refresh,
              RevokeDevice, Rearm, vars
<1> QED
  BY <1>1, <1>6, <1>7, <1>8, <1>9

\* A run on its way to the check was so before, or has just found its code in the cache.
LEMMA OnTheWayStep ==
  ASSUME Typed, NEW r \in Runs, RunStep(r), OnTheWay(run'[r])
  PROVE  run'[r].on \in cache \/ (OnTheWay(run[r]) /\ run'[r].on = run[r].on)
<1>1. ASSUME NEW d \in Devices, StartPairing(r, d) PROVE run'[r].on \in cache
  BY <1>1 DEF StartPairing, Start, Typed, Types
<1>2. ASSUME NEW d \in Devices,
             StartSetup(r, d) \/ StartDevice(r, d) \/ InitHandshake(r, d) \/ MatchCode(r, d)
      PROVE  FALSE
  BY <1>2 DEF StartSetup, StartDevice, InitHandshake, MatchCode, Start, OnTheWay, Typed, Types
<1>3. ASSUME NEW pc \in RunPcs, Goes(r, pc), OnTheWay(run[r]) \/ pc \notin {"pending", "burned", "live"}
      PROVE  OnTheWay(run[r]) /\ run'[r].on = run[r].on
  BY <1>3, GoesMeans DEF OnTheWay
<1>4. ASSUME NEW c \in Usable, run' = [run EXCEPT ![r].pc = "proved", ![r].on = c] PROVE FALSE
  BY <1>4 DEF OnTheWay, Typed, Types, RunType
<1>5. ASSUME run' = [run EXCEPT ![r].pc = "latched", ![r].era = era] PROVE FALSE
  BY <1>5 DEF OnTheWay, Typed, Types, RunType
<1>6. CASE Burn(r) \/ CheckLive(r)
  <2>1. run'[r].method = run[r].method
    BY <1>6, OthersStay DEF Burn, Pending, CheckLive
  <2>2. OnTheWay(run[r])
    BY <1>6, <2>1 DEF Burn, Pending, CheckLive, OnTheWay
  <2> QED
    BY <1>3, <1>6, <2>2 DEF Burn, CheckLive, RunPcs
<1>7. ASSUME \/ Lapse(r) \/ Spend(r) \/ RetireSpent(r) \/ MatchMac(r) \/ Consume(r) \/ BurnCode(r)
             \/ Latch(r) \/ ConfirmSetup(r) \/ RecordClaim(r) \/ Mint(r) \/ ResumeSession(r)
      PROVE  OnTheWay(run[r]) /\ run'[r].on = run[r].on
  BY <1>3, <1>4, <1>5, <1>7
     DEF Lapse, Spend, RetireSpent, MatchMac, Consume, BurnCode, Latch, ConfirmSetup, RecordClaim,
         Mint, ResumeSession, RunPcs
<1> QED
  BY <1>1, <1>2, <1>6, <1>7 DEF RunStep

\* A code enters the cache only from an issuer that has written its row.
LEMMA CacheSteps ==
  ASSUME [Next]_vars
  PROVE  \/ cache' \subseteq cache
         \/ \E i \in Issuers : issuer[i].pc = "inserted" /\ cache' = cache \cup {issuer[i].code}
BY DEF Next, RunStep, StartPairing, StartSetup, StartDevice, InitHandshake, MatchCode, Start, Lapse,
       Burn, CheckLive, Spend, RetireSpent, MatchMac, Consume, BurnCode, Latch, ConfirmSetup,
       RecordClaim, Mint, ResumeSession, IssueRead, IssueRetire, IssueInsert, IssueCache, RetireCodes,
       Expire, Refresh, RevokeDevice, Rearm, Crash, vars, memory

\* Nobody takes up an orphaned code again.
LEMMA OrphanStays ==
  ASSUME Typed, Ledger, [Next]_vars, NEW c \in Codes, c \notin Fresh, Orphan(c)
  PROVE  Orphan(c)'
<1>1. c \notin cache'
  BY CacheSteps DEF Orphan
<1>2. ASSUME NEW i \in Issuers, issuer'[i].pc = "inserted" PROVE issuer'[i].code # c
  <2>1. CASE issuer'[i] = issuer[i]
    BY <1>2, <2>1 DEF Orphan
  <2>2. CASE IssueInsert(i)
    <3>1. issuer'[i].code = issuer[i].code /\ code[issuer[i].code] = "promised"
      BY <2>2 DEF IssueInsert, Ledger, PromisesKept, Typed, Types
    <3> QED
      BY <3>1 DEF Fresh
  <2>3. CASE Crash
    BY <1>2, <2>3 DEF Crash
  <2>4. ASSUME NEW j \in Issuers,
               IssueRead(j) \/ IssueRetire(j) \/ IssueInsert(j) \/ IssueCache(j)
        PROVE  issuer'[i] = issuer[i] \/ IssueInsert(i)
    <3>1. j # i => issuer'[i] = issuer[i]
      BY <2>4 DEF IssueRead, IssueRetire, IssueInsert, IssueCache, Typed, Types
    <3>2. j = i => IssueInsert(i)
      BY <1>2, <2>4 DEF IssueRead, IssueRetire, IssueCache, Typed, Types
    <3> QED
      BY <3>1, <3>2
  <2> QED
    BY <2>1, <2>2, <2>3, <2>4, IssuerSteps
<1>3. ASSUME NEW q \in Runs, OnTheWay(run'[q]) PROVE run'[q].on # c
  <2>1. CASE run'[q] = run[q]
    BY <1>3, <2>1 DEF Orphan
  <2>2. ASSUME NEW r \in Runs, RunStep(r) PROVE run'[q].on # c
    <3>1. CASE q # r
      BY <2>1, <2>2, <3>1, OthersStay
    <3>2. CASE q = r
      BY <1>3, <2>2, <3>2, OnTheWayStep DEF Orphan
    <3> QED
      BY <3>1, <3>2
  <2>3. CASE Crash
    BY <1>3, <2>3 DEF Crash, OnTheWay, Typed, Types, RunType
  <2>4. ASSUME ~(\E r \in Runs : RunStep(r)), ~Crash PROVE UNCHANGED run
    BY <2>4 DEF Next, IssueRead, IssueRetire, IssueInsert, IssueCache, Expire, Refresh,
                RevokeDevice, Rearm, vars
  <2> QED
    BY <2>1, <2>2, <2>3, <2>4
<1> QED
  BY <1>1, <1>2, <1>3 DEF Orphan, OnTheWay

\* Until complete_pairing takes a code up or the pond restarts, what was spent on it stays spent.
LEMMA SpentStaysSpent ==
  ASSUME Typed, [Next]_vars, ~Crash, NEW c \in Codes, c \notin forgotten'
  PROVE  attempts'[c] >= attempts[c]
<1>0. attempts[c] \in Nat /\ attempts[c] <= Budget /\ Budget \in Nat
  BY PairingAssumption DEF Typed, Types
<1>1. CASE UNCHANGED attempts
  BY <1>0, <1>1
<1>2. ASSUME NEW cs, RetireCodes(cs) PROVE attempts'[c] >= attempts[c]
  BY <1>0, <1>2 DEF RetireCodes
<1>3. ASSUME NEW r \in Runs, Spend(r) PROVE attempts'[c] >= attempts[c]
  BY <1>0, <1>3 DEF Spend, Typed, Types
<1>4. ASSUME NEW r \in Runs, Consume(r) PROVE attempts'[c] >= attempts[c]
  <2>1. run[r].on # c
    BY <1>4 DEF Consume
  <2> QED
    BY <1>0, <1>4, <2>1 DEF Consume, Typed, Types
<1>5. ASSUME NEW r \in Runs, RunStep(r), ~Spend(r), ~RetireSpent(r), ~Consume(r) PROVE UNCHANGED attempts
  BY <1>5 DEF RunStep, StartPairing, StartSetup, StartDevice, InitHandshake, MatchCode, Start,
              Lapse, Burn, CheckLive, MatchMac, BurnCode, Latch, ConfirmSetup, RecordClaim, Mint,
              ResumeSession, memory
<1>6. ASSUME \/ \E i \in Issuers : IssueRead(i) \/ IssueInsert(i) \/ IssueCache(i)
             \/ \E k \in Codes : Expire(k)
             \/ \E t \in Tokens : Refresh(t)
             \/ \E d \in Devices : RevokeDevice(d)
             \/ Rearm \/ UNCHANGED vars
      PROVE  UNCHANGED attempts
  BY <1>6 DEF IssueRead, IssueInsert, IssueCache, Expire, Refresh, RevokeDevice, Rearm, vars, memory
<1>7. ASSUME \/ \E i \in Issuers : IssueRetire(i)
             \/ \E r \in Runs : RetireSpent(r)
      PROVE  \E cs : RetireCodes(cs)
  BY <1>7 DEF IssueRetire, RetireSpent
<1> QED
  BY <1>1, <1>2, <1>3, <1>4, <1>5, <1>6, <1>7 DEF Next

\* Every tag that is checked is paid for, until complete_pairing takes the code up.
LEMMA ChecksNext ==
  ASSUME Typed, Ledger, ChecksCounted, [Next]_vars, Typed'
  PROVE  ChecksCounted'
<1>0. /\ Budget \in Nat
      /\ \A c \in Codes : checks[c] \in Nat /\ attempts[c] \in Nat /\ attempts'[c] \in Nat
  BY PairingAssumption DEF Typed, Types
<1>1. ASSUME NEW c \in Codes PROVE c \in Fresh' => c \in Fresh
  BY CodeSteps DEF Fresh, Ledger
<1>2. ASSUME NEW c \in forgotten PROVE c \in forgotten'
  BY <1>2 DEF Next, RunStep, StartPairing, StartSetup, StartDevice, InitHandshake, MatchCode, Start,
       Lapse, Burn, CheckLive, Spend, RetireSpent, MatchMac, Consume, BurnCode, Latch, ConfirmSetup,
       RecordClaim, Mint, ResumeSession, IssueRead, IssueRetire, IssueInsert, IssueCache,
       Expire, Refresh, RevokeDevice, Rearm, Crash, vars
<1>3. ASSUME NEW c \in Codes, checks'[c] = checks[c], c \notin forgotten'
      PROVE  /\ checks'[c] <= Budget
             /\ c \notin Fresh' => checks'[c] <= attempts'[c] \/ Orphan(c)'
  <2>1. c \notin forgotten /\ checks[c] <= Budget
    BY <1>2, <1>3 DEF ChecksCounted
  <2>2. CASE Crash
    <3>1. \A q \in Runs : ~OnTheWay(run'[q])
      BY <2>2 DEF Crash, OnTheWay, Typed, Types, RunType
    <3>2. c \notin cache' /\ \A i \in Issuers : issuer'[i].pc # "inserted"
      BY <2>2 DEF Crash
    <3> QED
      BY <1>3, <2>1, <3>1, <3>2 DEF Orphan, OnTheWay
  <2>3. CASE c \in Fresh
    BY <1>0, <1>3, <2>1, <2>3 DEF ChecksCounted
  <2>4. CASE c \notin Fresh /\ ~Crash
    <3>1. CASE Orphan(c)
      BY <1>3, <2>1, <2>4, <3>1, OrphanStays
    <3>2. CASE checks[c] <= attempts[c]
      BY <1>0, <1>3, <2>1, <2>4, <3>2, SpentStaysSpent
    <3> QED
      BY <2>1, <2>4, <3>1, <3>2 DEF ChecksCounted
  <2> QED
    BY <2>2, <2>3, <2>4
<1>4. CASE UNCHANGED checks
  BY <1>1, <1>3, <1>4 DEF ChecksCounted
<1>5. ASSUME NEW r \in Runs, Spend(r), ~UNCHANGED checks PROVE ChecksCounted'
  <2> DEFINE k == run[r].on
  <2>1. OnTheWay(run[r]) /\ k \in Codes
    BY <1>5, PairingAssumption DEF Spend, OnTheWay, Typed, Types, RunType, RunsShaped, Shaped
  <2>2. k \notin Fresh
    BY <2>1 DEF Ledger, NamesIssued, NamesACode, OnTheWay
  <2>3. /\ attempts[k] < Budget /\ attempts' = [attempts EXCEPT ![k] = @ + 1]
        /\ checks' = [checks EXCEPT ![k] = @ + 1]
        /\ UNCHANGED forgotten
    BY <1>0, <1>5, <2>1 DEF Spend
  <2>4. checks'[k] = checks[k] + 1 /\ attempts'[k] = attempts[k] + 1
    BY <2>1, <2>3 DEF Typed, Types
  <2>5. k \notin forgotten => checks[k] <= attempts[k]
    BY <2>1, <2>2 DEF ChecksCounted, Orphan
  <2>6. k \notin Fresh' /\ (k \notin forgotten' => checks'[k] <= Budget /\ checks'[k] <= attempts'[k])
    BY <1>0, <1>1, <2>1, <2>2, <2>3, <2>4, <2>5
  <2>7. ASSUME NEW c \in Codes, c # k PROVE checks'[c] = checks[c]
    BY <2>3, <2>7 DEF Typed, Types
  <2> QED
    BY <1>1, <1>3, <2>6, <2>7 DEF ChecksCounted
<1>6. ASSUME ~(\E r \in Runs : Spend(r)) PROVE UNCHANGED checks
  BY <1>6 DEF Next, RunStep, StartPairing, StartSetup, StartDevice, InitHandshake, MatchCode, Start,
       Lapse, Burn, CheckLive, RetireSpent, MatchMac, Consume, BurnCode, Latch, ConfirmSetup,
       RecordClaim, Mint, ResumeSession, IssueRead, IssueRetire, IssueInsert, IssueCache,
       Expire, Refresh, RevokeDevice, Rearm, Crash, vars
<1> QED
  BY <1>4, <1>5, <1>6

-----------------------------------------------------------------------------
(* The theorems.                                                           *)

PairingInv ==
  /\ Typed /\ PendingBounded
  /\ Owned /\ OnePair
  /\ CardHeld /\ OneHolder /\ ClaimFirst
  /\ Ledger /\ ChecksCounted

\* The conjunction of the above is inductive: it holds when the pond starts, and each step keeps it.
THEOREM PairingIsSound == Spec => []PairingInv
<1>1. Init => PairingInv
  <2> SUFFICES ASSUME Init PROVE PairingInv
    OBVIOUS
  <2>1. Typed
    BY TypedInit
  <2>2. Pending = {}
    BY DEF Init, Pending, Idle
  <2>3. PendingBounded
    BY <2>2, FS_EmptySet, PairingAssumption DEF PendingBounded
  <2>4. \A t \in Tokens : token[t].device = "none" /\ ~token[t].live /\ token[t] = [device |-> "none", live |-> FALSE]
    BY DEF Init
  <2>5. Owned /\ OnePair /\ Minted = {}
    <3>1. \A d \in Devices : LiveOf(d) = {}
      BY <2>4 DEF LiveOf
    <3> QED
      BY <2>4, <3>1 DEF Owned, OnePair, Minted
  <2>6. \A r \in Runs : run[r].pc = "idle" /\ run[r].method = "none"
    BY DEF Init, Idle
  <2>7. CardHeld /\ OneHolder /\ ClaimFirst
    BY <2>5, <2>6 DEF CardHeld, OneHolder, ClaimFirst
  <2>8. Ledger
    BY <2>6 DEF Init, Ledger, PromisesKept, PromisesApart, NamesIssued, NamesACode, ProofConsumes,
                OneProof, WentThrough
  <2>9. ChecksCounted
    BY PairingAssumption DEF Init, ChecksCounted
  <2> QED
    BY <2>1, <2>3, <2>5, <2>7, <2>8, <2>9 DEF PairingInv
<1>2. PairingInv /\ [Next]_vars => PairingInv'
  BY TypedNext, PendingNext, OnePairNext, CardHeldNext, ClaimFirstNext, LedgerNext, ChecksNext DEF PairingInv
<1> QED
  BY <1>1, <1>2, PTL DEF Spec

\* MAX_PENDING_PAKE bounds the runs the pond holds, and PAKE_FAILURE_BUDGET the CPace tags it checks
\* against a code until complete_pairing takes it up, however many runs race each other, also once
\* the code has expired or was retired, and across restarts that forget the budgets.
THEOREM BudgetsHold == Spec => []BudgetHolds
<1>1. PairingInv => BudgetHolds
  BY DEF PairingInv, Typed, Types, RunType, TypeOK, PendingBounded, BudgetHolds,
         BudgetBoundsTheChecks, ChecksCounted
<1> QED
  BY <1>1, PairingIsSound, PTL

\* A code that CPace or the mac proved pairs one run.
THEOREM ProvedCodePairsOnce == Spec => []ProofPairsOnce
<1>1. PairingInv => ProofPairsOnce
  <2> SUFFICES ASSUME PairingInv, NEW r \in Runs, NEW s \in Runs, r # s, run[r].on = run[s].on,
                      {run[r].method, run[s].method} \subseteq {"cpace", "hmac"},
                      {run[r].pc, run[s].pc} \cap {"consumed", "latched", "paired"} = {run[r].pc, run[s].pc}
               PROVE  FALSE
    BY DEF ProofPairsOnce
  <2>1. run[r].method \in {"cpace", "hmac"} /\ run[s].method \in {"cpace", "hmac"}
    OBVIOUS
  <2>2. run[r].pc \in {"consumed", "latched", "paired"} /\ run[s].pc \in {"consumed", "latched", "paired"}
    OBVIOUS
  <2> QED
    BY <2>1, <2>2 DEF PairingInv, Ledger, OneProof, WentThrough
<1> QED
  BY <1>1, PairingIsSound, PTL

\* A device has at most one live session pair, however it came by it.
THEOREM DeviceHasOnePair == Spec => []OneLivePair
<1>1. PairingInv => OneLivePair
  <2> SUFFICES ASSUME PairingInv, NEW d \in Devices PROVE Cardinality(LiveOf(d)) <= 1
    BY DEF OneLivePair
  <2>1. CASE LiveOf(d) = {}
    BY <2>1, FS_EmptySet
  <2>2. ASSUME NEW t \in LiveOf(d) PROVE Cardinality(LiveOf(d)) <= 1
    <3>1. LiveOf(d) = {t}
      BY <2>2 DEF PairingInv, OnePair
    <3>2. Cardinality({t}) = 1
      BY FS_Singleton
    <3> QED
      BY <3>1, <3>2
  <2> QED
    BY <2>1, <2>2
<1> QED
  BY <1>1, PairingIsSound, PTL

\* The printed card lets one phone in for each time it was armed.
THEOREM CardAdmitsOne == Spec => []CardClaimsOnce
<1>1. PairingInv => CardClaimsOnce
  <2> SUFFICES ASSUME PairingInv, NEW r \in Runs, NEW s \in Runs, r # s,
                      {run[r].method, run[s].method} = {"setup"}, run[r].era = run[s].era,
                      {run[r].pc, run[s].pc} \subseteq {"latched", "paired"}
               PROVE  FALSE
    BY DEF CardClaimsOnce
  <2>1. run[r].method = "setup" /\ run[s].method = "setup"
    OBVIOUS
  <2>2. run[r].pc \in {"latched", "paired"} /\ run[s].pc \in {"latched", "paired"}
    OBVIOUS
  <2> QED
    BY <2>1, <2>2 DEF PairingInv, OneHolder
<1> QED
  BY <1>1, PairingIsSound, PTL

\* No phone is paired beside a live card.
THEOREM ClaimComesFirst == Spec => []PairedMeansClaimed
<1>1. PairingInv => PairedMeansClaimed
  BY DEF PairingInv, ClaimFirst, PairedMeansClaimed
<1> QED
  BY <1>1, PairingIsSound, PTL

\* A refresh token is exchanged at most once.
THEOREM RefreshTokenBuysOnce == Spec => RefreshBuysOnce
<1>1. PairingInv /\ [Next]_vars =>
        [\A t \in Tokens :
            token[t].device = "none" /\ token'[t].live =>
                \/ \E r \in Runs : run[r].pc = "latched" /\ run'[r].pc = "paired"
                \/ \E k \in Tokens : token[k] = token'[t] /\ ~token'[k].live]_vars
  BY RotatesALivePair DEF PairingInv
<1> QED
  BY <1>1, PairingIsSound, PTL DEF Spec, RefreshBuysOnce
=============================================================================
