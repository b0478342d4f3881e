------------------------------- MODULE Pairing -------------------------------
(***************************************************************************)
(* Pairing a device with the pond (pond-infra: sqlite_handshake.rs;        *)
(* pond-core: setup_claim.rs): pairing codes and their failure budgets,    *)
(* the four ways a run proves itself, the claim of the printed card, and   *)
(* the session tokens that come of it.                                     *)
(*                                                                         *)
(* The tables are durable; plaintext codes, budgets and runs waiting for   *)
(* their verify are in memory.  A run takes one step per await, so runs,   *)
(* issuers, refreshes, revocations and a restart interleave between its    *)
(* reads and its writes.  Whether a proof verifies is a choice of the      *)
(* environment, and so is when a code or a challenge expires.  Codes are   *)
(* numbered by created_at, tokens as they are minted.                      *)
(***************************************************************************)
EXTENDS Naturals, FiniteSets, FiniteSetsExt

CONSTANTS Devices,
          Runs,       \* pairing attempts; each is made at most once
          Methods,    \* which of "cpace", "hmac", "legacy", "setup", "device" they use
          Issuers,    \* parties that issue codes: the dashboard, the voice
          Budget,     \* PAKE_FAILURE_BUDGET
          MaxPending, \* MAX_PENDING_PAKE
          MaxCodes,   \* bound: codes issued
          MaxTokens,  \* bound: tokens minted
          MaxRearms,  \* bound: times the card is re-armed
          MaxCrashes  \* bound: restarts

ASSUME PairingAssumption ==
    /\ "none" \notin Devices
    /\ Methods \subseteq {"cpace", "hmac", "legacy", "setup", "device"}
    /\ Budget \in Nat \ {0} /\ MaxPending \in Nat \ {0}
    /\ {MaxCodes, MaxTokens, MaxRearms, MaxCrashes} \subseteq Nat

VARIABLES
    code,     \* pairing_codes: the state of each code
    cache,    \* ISSUED_CODE_CACHE: codes whose plaintext this process has
    attempts, \* PakeState::attempts, by code
    checks,   \* CPace tags checked against each code
    forgotten,\* codes whose entry of attempts complete_pairing has removed
    run,      \* what each run holds, and where it is
    issuer,   \* what each issuer is doing, with the codes it read
    token,    \* session_tokens: the device of each token, and whether it is live
    claim,    \* the setup record: the device that claimed the pond, or "none"
    era,      \* how often the card was re-armed
    excused,  \* whether the record was re-armed, or could not be written, since the last claim
    crashes

memory == <<cache, attempts, issuer>>
tables == <<code, token, claim>>
vars   == <<code, cache, attempts, checks, forgotten, run, issuer, token, claim, era, excused, crashes>>

Codes  == 1..MaxCodes
Tokens == 1..MaxTokens

CodeStates == {"none", "promised", "active", "consumed", "retired"}
RunPcs == {"idle", "pending", "burned", "live", "retiring", "proved", "matched", "confirmed",
           "consumed", "latched", "paired", "over"}

\* A run: its method, its device, the code or token it committed to and the era of its claim.
Idle == [pc |-> "idle", method |-> "none", device |-> "none", on |-> 0, era |-> 0]

Active    == {c \in Codes : code[c] = "active"}
Usable    == Active \cap cache
LiveOf(d) == {t \in Tokens : token[t] = [device |-> d, live |-> TRUE]}
Minted    == {t \in Tokens : token[t].device # "none"}
Pending   == {r \in Runs : run[r].pc = "pending" /\ run[r].method \in {"cpace", "setup", "device"}}

Init ==
    /\ code = [c \in Codes |-> "none"] /\ cache = {}
    /\ attempts = [c \in Codes |-> 0] /\ checks = [c \in Codes |-> 0]
    /\ forgotten = {}
    /\ run = [r \in Runs |-> Idle]
    /\ issuer = [i \in Issuers |-> [pc |-> "idle", code |-> 0, older |-> {}]]
    /\ token = [t \in Tokens |-> [device |-> "none", live |-> FALSE]]
    /\ claim = "none" /\ era = 0 /\ excused = FALSE /\ crashes = 0

-----------------------------------------------------------------------------
(* Codes.                                                                  *)

\* retire_codes: expired in the table, plaintext forgotten, budget spent.
RetireCodes(cs) ==
    /\ code' = [c \in Codes |-> IF c \in cs /\ code[c] = "active" THEN "retired" ELSE code[c]]
    /\ cache' = cache \ cs
    /\ attempts' = [c \in Codes |-> IF c \in cs THEN Budget ELSE attempts[c]]

\* issue_pairing_code_for: created_at and the older codes are read first ...
IssueRead(i) ==
    /\ issuer[i].pc = "idle"
    /\ \E c \in Codes :
          /\ code[c] = "none" /\ \A k \in Codes : k < c => code[k] # "none"
          /\ code' = [code EXCEPT ![c] = "promised"]
          /\ issuer' = [issuer EXCEPT ![i] = [pc |-> "read", code |-> c, older |-> Active]]
    /\ UNCHANGED <<cache, attempts, checks, forgotten, run, token, claim, era, excused, crashes>>

\* ... then retired ...
IssueRetire(i) ==
    /\ issuer[i].pc = "read"
    /\ RetireCodes(issuer[i].older)
    /\ issuer' = [issuer EXCEPT ![i].pc = "retired", ![i].older = {}]
    /\ UNCHANGED <<checks, forgotten, run, token, claim, era, excused, crashes>>

\* ... then the new row is written, and last its plaintext is kept.
IssueInsert(i) ==
    /\ issuer[i].pc = "retired"
    /\ code' = [code EXCEPT ![issuer[i].code] = "active"]
    /\ issuer' = [issuer EXCEPT ![i].pc = "inserted"]
    /\ UNCHANGED <<cache, attempts, checks, forgotten, run, token, claim, era, excused, crashes>>

IssueCache(i) ==
    /\ issuer[i].pc = "inserted"
    /\ cache' = cache \cup {issuer[i].code}
    /\ issuer' = [issuer EXCEPT ![i] = [pc |-> "idle", code |-> 0, older |-> {}]]
    /\ UNCHANGED <<code, attempts, checks, forgotten, run, token, claim, era, excused, crashes>>

\* PAIRING_CODE_TTL_MIN has passed.
Expire(c) ==
    /\ code[c] = "active"
    /\ code' = [code EXCEPT ![c] = "retired"]
    /\ UNCHANGED <<memory, checks, forgotten, run, token, claim, era, excused, crashes>>

-----------------------------------------------------------------------------
(* Starting a run.                                                         *)

Start(r, m, d, on) ==
    /\ run[r].pc = "idle" /\ m \in Methods
    /\ run' = [run EXCEPT ![r] = [pc |-> "pending", method |-> m, device |-> d, on |-> on, era |-> 0]]
    /\ UNCHANGED <<memory, tables, checks, forgotten, era, excused, crashes>>

\* Fault: a run commits to a code whose plaintext is gone.
StartPairingUncached(r, d) ==
    /\ Cardinality(Pending) < MaxPending
    /\ Active # {}
    /\ Start(r, "cpace", d, Max(Active))

\* start_pake_run under a pairing code: the newest active one, if this process issued it.
StartPairing(r, d) ==
    /\ Cardinality(Pending) < MaxPending
    /\ Active # {} /\ Max(Active) \in cache
    /\ Start(r, "cpace", d, Max(Active))

\* Under the setup code: admit_setup_attempt reads the record; the throttle lets it pass.
StartSetup(r, d) ==
    /\ Cardinality(Pending) < MaxPending
    /\ claim = "none"
    /\ Start(r, "setup", d, 0)

\* Under the device's newest refresh hash, or a stand-in nothing confirms.
StartDevice(r, d) ==
    /\ Cardinality(Pending) < MaxPending
    /\ Start(r, "device", d, IF LiveOf(d) = {} THEN 0 ELSE Max(LiveOf(d)))

\* init_handshake: a challenge of its own table; no code is named yet.
InitHandshake(r, d) == Start(r, "hmac", d, 0)

-----------------------------------------------------------------------------
(* Finishing it.                                                           *)

Goes(r, pc) == run' = [run EXCEPT ![r].pc = pc]

\* A challenge that is never answered, or answered too late.
Lapse(r) ==
    /\ run[r].pc = "pending"
    /\ Goes(r, "over")
    /\ UNCHANGED <<memory, tables, checks, forgotten, era, excused, crashes>>

\* finish_pake_run: the run is burned before anything is checked.
Burn(r) ==
    /\ r \in Pending
    /\ Goes(r, "burned")
    /\ UNCHANGED <<memory, tables, checks, forgotten, era, excused, crashes>>

\* The code must still be live.
CheckLive(r) ==
    /\ run[r].pc = "burned" /\ run[r].method = "cpace"
    /\ Goes(r, IF run[r].on \in Active THEN "live" ELSE "over")
    /\ UNCHANGED <<memory, tables, checks, forgotten, era, excused, crashes>>

\* One attempt is spent, then the tag is checked; the failure that spends the last retires the code.
Spend(r) ==
    LET c == run[r].on IN
    /\ run[r].pc = "live"
    /\ IF attempts[c] >= Budget
       THEN Goes(r, "over") /\ UNCHANGED <<attempts, checks>>
       ELSE /\ attempts' = [attempts EXCEPT ![c] = @ + 1]
            /\ checks' = [checks EXCEPT ![c] = @ + 1]
            /\ \/ Goes(r, "proved")
               \/ Goes(r, IF attempts[c] + 1 >= Budget THEN "retiring" ELSE "over")
    /\ UNCHANGED <<cache, issuer, tables, forgotten, era, excused, crashes>>

RetireSpent(r) ==
    /\ run[r].pc = "retiring"
    /\ RetireCodes({run[r].on})
    /\ Goes(r, "over")
    /\ UNCHANGED <<checks, forgotten, issuer, token, claim, era, excused, crashes>>

\* verify_handshake: the challenge is consumed and the mac compared with every usable code.
MatchMac(r) ==
    /\ run[r].pc = "pending" /\ run[r].method = "hmac"
    /\ \/ \E c \in Usable : run' = [run EXCEPT ![r].pc = "proved", ![r].on = c]
       \/ Goes(r, "over")
    /\ UNCHANGED <<memory, tables, checks, forgotten, era, excused, crashes>>

\* Fault: the code is consumed whatever its row says.
ConsumeAnyway(r) ==
    LET c == run[r].on IN
    /\ run[r].pc = "proved"
    /\ cache' = cache \ {c}
    /\ attempts' = [attempts EXCEPT ![c] = 0] /\ forgotten' = forgotten \cup {c}
    /\ code' = [code EXCEPT ![c] = "consumed"] /\ Goes(r, "consumed")
    /\ UNCHANGED <<checks, issuer, token, claim, era, excused, crashes>>

\* complete_pairing: the code is consumed if its row still allows it.
Consume(r) ==
    LET c == run[r].on IN
    /\ run[r].pc = "proved"
    /\ cache' = cache \ {c}
    /\ attempts' = [attempts EXCEPT ![c] = 0] /\ forgotten' = forgotten \cup {c}
    /\ IF c \in Active
       THEN code' = [code EXCEPT ![c] = "consumed"] /\ Goes(r, "consumed")
       ELSE Goes(r, "over") /\ UNCHANGED code
    /\ UNCHANGED <<checks, issuer, token, claim, era, excused, crashes>>

\* handshake, the single step of the loopback interface: a row is matched ...
MatchCode(r, d) ==
    /\ run[r].pc = "idle" /\ "legacy" \in Methods
    /\ \E c \in Active :
          run' = [run EXCEPT ![r] = [pc |-> "matched", method |-> "legacy", device |-> d, on |-> c, era |-> 0]]
    /\ UNCHANGED <<memory, tables, checks, forgotten, era, excused, crashes>>

\* ... and consumed in a statement of its own.
BurnCode(r) ==
    /\ run[r].pc = "matched"
    /\ code' = [code EXCEPT ![run[r].on] = "consumed"]
    /\ cache' = cache \ {run[r].on}
    /\ Goes(r, "consumed")
    /\ UNCHANGED <<attempts, issuer, checks, forgotten, token, claim, era, excused, crashes>>

\* Fault: a code's pairing leaves the claim alone.
NoLatch(r) ==
    /\ run[r].pc = "consumed"
    /\ Goes(r, "latched")
    /\ UNCHANGED <<memory, tables, checks, forgotten, era, excused, crashes>>

\* latch_setup_claim: the first pairing claims the pond; best effort.
Latch(r) ==
    /\ run[r].pc = "consumed"
    /\ Goes(r, "latched")
    /\ IF claim # "none" THEN UNCHANGED <<claim, excused>>
       ELSE \/ claim' = run[r].device /\ excused' = FALSE
            \/ excused' = TRUE /\ UNCHANGED claim
    /\ UNCHANGED <<memory, code, token, checks, forgotten, era, crashes>>

\* verify_setup_run: the tag is checked; nothing but the throttle is spent.
ConfirmSetup(r) ==
    /\ run[r].pc = "burned" /\ run[r].method = "setup"
    /\ \/ Goes(r, "confirmed")
       \/ Goes(r, "over")
    /\ UNCHANGED <<memory, tables, checks, forgotten, era, excused, crashes>>

\* Fault: the claim is taken on what was read when the run started.
RecordClaimUnread(r) ==
    /\ run[r].pc = "confirmed"
    /\ run' = [run EXCEPT ![r].pc = "latched", ![r].era = era]
    /\ claim' = run[r].device /\ excused' = FALSE
    /\ UNCHANGED <<memory, code, token, checks, forgotten, era, crashes>>

\* record_claim: the first to get here wins; a record that cannot be written refuses.
RecordClaim(r) ==
    /\ run[r].pc = "confirmed"
    /\ \/ /\ claim = "none"
          /\ run' = [run EXCEPT ![r].pc = "latched", ![r].era = era]
          /\ claim' = run[r].device /\ excused' = FALSE
       \/ /\ Goes(r, "over")
          /\ UNCHANGED <<claim, excused>>
    /\ UNCHANGED <<memory, code, token, checks, forgotten, era, crashes>>

\* Fault: the device's older tokens stay live.
IssueBeside(d) ==
    \E t \in Tokens \ Minted :
        /\ \A k \in Tokens : k < t => k \in Minted
        /\ token' = [token EXCEPT ![t] = [device |-> d, live |-> TRUE]]

\* issue_session_pair: the device's live pair is revoked and a new one minted, in one transaction.
IssueSessionPair(d) ==
    \E t \in Tokens \ Minted :
        /\ \A k \in Tokens : k < t => k \in Minted
        /\ token' = [k \in Tokens |-> IF k = t THEN [device |-> d, live |-> TRUE]
                                      ELSE IF k \in LiveOf(d) THEN [device |-> d, live |-> FALSE]
                                      ELSE token[k]]

\* The device is registered and its tokens are minted.
Mint(r) ==
    /\ run[r].pc = "latched"
    /\ IssueSessionPair(run[r].device)
    /\ Goes(r, "paired")
    /\ UNCHANGED <<memory, code, claim, checks, forgotten, era, excused, crashes>>

\* Fault: the row is not looked at again.
RotateUnread(t) == IssueSessionPair(token[t].device)

\* rotate_refresh, one transaction: a live row is exchanged for a new one of its device.
RotateRefresh(t) ==
    /\ token[t].live
    /\ IssueSessionPair(token[t].device)

\* verify_device_run: the tag is checked and the row the run committed to is rotated, if it still
\* can be.
ResumeSession(r) ==
    /\ run[r].pc = "burned" /\ run[r].method = "device"
    /\ \/ /\ run[r].on # 0
          /\ RotateRefresh(run[r].on)
          /\ Goes(r, "paired")
       \/ Goes(r, "over") /\ UNCHANGED token
    /\ UNCHANGED <<memory, code, claim, checks, forgotten, era, excused, crashes>>

\* refresh, with any token ever minted: a late or repeated one changes nothing.
Refresh(t) ==
    /\ t \in Minted
    /\ RotateRefresh(t)
    /\ UNCHANGED <<memory, code, claim, run, checks, forgotten, era, excused, crashes>>

\* revoke_device, revoke_token.
RevokeDevice(d) ==
    /\ LiveOf(d) # {}
    /\ token' = [t \in Tokens |-> IF t \in LiveOf(d) THEN [device |-> d, live |-> FALSE] ELSE token[t]]
    /\ UNCHANGED <<memory, code, claim, run, checks, forgotten, era, excused, crashes>>

-----------------------------------------------------------------------------
\* rearm, by the operator: the printed card is accepted again.
Rearm ==
    /\ era < MaxRearms /\ claim # "none"
    /\ claim' = "none" /\ era' = era + 1 /\ excused' = TRUE
    /\ UNCHANGED <<memory, code, token, checks, forgotten, run, crashes>>

\* A restart forgets plaintext codes, budgets and every run under way.
Crash ==
    /\ crashes < MaxCrashes
    /\ crashes' = crashes + 1
    /\ cache' = {} /\ attempts' = [c \in Codes |-> 0]
    /\ issuer' = [i \in Issuers |-> [pc |-> "idle", code |-> 0, older |-> {}]]
    /\ run' = [r \in Runs |-> IF run[r].pc \in {"idle", "paired"} THEN run[r]
                              ELSE [run[r] EXCEPT !.pc = "over"]]
    /\ UNCHANGED <<tables, checks, forgotten, era, excused>>

RunStep(r) ==
    \/ \E d \in Devices : StartPairing(r, d) \/ StartSetup(r, d) \/ StartDevice(r, d)
                          \/ InitHandshake(r, d) \/ MatchCode(r, d)
    \/ Lapse(r) \/ Burn(r) \/ CheckLive(r) \/ Spend(r) \/ RetireSpent(r) \/ MatchMac(r)
    \/ Consume(r) \/ BurnCode(r) \/ Latch(r) \/ ConfirmSetup(r) \/ RecordClaim(r) \/ Mint(r)
    \/ ResumeSession(r)

Next ==
    \/ \E r \in Runs : RunStep(r)
    \/ \E i \in Issuers : IssueRead(i) \/ IssueRetire(i) \/ IssueInsert(i) \/ IssueCache(i)
    \/ \E c \in Codes : Expire(c)
    \/ \E t \in Tokens : Refresh(t)
    \/ \E d \in Devices : RevokeDevice(d)
    \/ Rearm \/ Crash

Spec == Init /\ [][Next]_vars

-----------------------------------------------------------------------------
TypeOK ==
    /\ code \in [Codes -> CodeStates] /\ cache \subseteq Codes
    /\ attempts \in [Codes -> 0..Budget] /\ checks \in [Codes -> Nat]
    /\ forgotten \subseteq Codes
    /\ run \in [Runs -> [pc : RunPcs, method : Methods \cup {"none"}, device : Devices \cup {"none"},
                         on : Nat, era : Nat]]
    /\ issuer \in [Issuers -> [pc : {"idle", "read", "retired", "inserted"}, code : Nat, older : SUBSET Codes]]
    /\ token \in [Tokens -> [device : Devices \cup {"none"}, live : BOOLEAN]]
    /\ claim \in Devices \cup {"none"} /\ era \in 0..MaxRearms /\ excused \in BOOLEAN
    /\ crashes \in 0..MaxCrashes
    /\ Cardinality(Pending) <= MaxPending

\* However runs, issuers and expiries interleave, and across restarts that forget the budget, no
\* more CPace tags are checked against a code than PAKE_FAILURE_BUDGET, until a proved run comes to
\* complete_pairing, which removes its count.  The mac's and the loopback's checks have none.
BudgetBoundsTheChecks == \A c \in Codes \ forgotten : checks[c] <= Budget

\* The pond's memory of runs and attempts stays within its limits, and so do the tags it checks.
BudgetHolds == TypeOK /\ BudgetBoundsTheChecks

\* Two runs that proved the same code by CPace or the mac, whatever else happens to it, do not
\* both pair.
ProofPairsOnce ==
    \A r, s \in Runs :
        /\ r # s /\ run[r].on = run[s].on
        /\ {run[r].method, run[s].method} \subseteq {"cpace", "hmac"}
        => {run[r].pc, run[s].pc} \cap {"consumed", "latched", "paired"} # {run[r].pc, run[s].pc}

\* A device never has two live pairs, whichever way it came by them: pairing again, refreshing and
\* resuming retire the pair before.
OneLivePair == \A d \in Devices : Cardinality(LiveOf(d)) <= 1

\* Two phones racing the card leave one paired: no two runs hold the claim of the same arming.
CardClaimsOnce ==
    \A r, s \in Runs :
        r # s /\ {run[r].method, run[s].method} = {"setup"} /\ run[r].era = run[s].era
        => ~({run[r].pc, run[s].pc} \subseteq {"latched", "paired"})

\* A crash leaves a claimed pond, never a paired phone beside a live card: while tokens have been
\* minted the pond is claimed, unless it was re-armed or its record could not be written.
PairedMeansClaimed == Minted # {} => claim # "none" \/ excused

\* A refresh token buys one successor: a live pair is never born of a pair that was not live.
RefreshBuysOnce ==
    [][\A t \in Tokens :
          token[t].device = "none" /\ token'[t].live =>
              \/ \E r \in Runs : run[r].pc = "latched" /\ run'[r].pc = "paired"
              \/ \E k \in Tokens : token[k] = token'[t] /\ ~token'[k].live]_vars

\* issue_pairing_code_for: "The code on screen is the only one that works: a new code retires
\* every older one".
OneCodeWorks == Cardinality(Usable) <= 1

\* finish_pake_run: "concurrent verifies cannot check more tags than the budget allows", and
\* retire_codes: "a verify already past its liveness check must not find a fresh budget for a code
\* that has just been retired".  It finds one for a code that has just been consumed.
TagsWithinBudget == \A c \in Codes : checks[c] <= Budget

\* docs/api.md: POST /handshake/pairing-code "issues a fresh single-use code".
CodeIsSingleUse ==
    \A r, s \in Runs :
        /\ r # s /\ run[r].on = run[s].on
        /\ {run[r].method, run[s].method} \subseteq {"cpace", "hmac", "legacy"}
        => {run[r].pc, run[s].pc} \cap {"consumed", "latched", "paired"} # {run[r].pc, run[s].pc}
=============================================================================
