---------------------------- MODULE Certification ----------------------------
(***************************************************************************)
(* What stands between an installed program and DEMO trading: the row of   *)
(* certification_records and its four gates (core/certify), the soak       *)
(* runner, the script that completes the soak of a dead runner, the drift  *)
(* check, and the accounts that may be made active (core/accounts) by the  *)
(* Broker Hub page and by the headless commands.                           *)
(*                                                                         *)
(* A command is one transaction of a process that holds the                *)
(* single-instance lock for as long as it runs, so it is one action.  The  *)
(* soak holds the lock for days, in several transactions; the script of    *)
(* the dead runner takes no lock, so what either reads before it completes *)
(* a soak may be stale when it writes: that transaction is two actions.    *)
(* Time is wall-clock time in heartbeats.                                  *)
(***************************************************************************)
EXTENDS Integers, Sequences, FiniteSets

CONSTANTS
  Ids,        \* account ids a command may name
  Paper,      \* DEFAULT_PAPER_ACCOUNT_ID
  Versions,   \* what current_version_snapshot can return
  None,       \* no baseline, no account row
  Gate,       \* LIFECYCLE_GATE
  Required,   \* SOAK_REQUIRED, in heartbeats
  LockHolds,  \* whether the lock keeps a second process out (it cannot when
              \* one process fell back to the lock file)
  MaxSoaks, MaxCycles, MaxWall, \* bounds: soaks, lifecycles, time
  MaxDoubts   \* bound: accounts that are unclear or exposed at one time

ASSUME CertificationAssumption ==
  /\ Paper \in Ids
  /\ None \notin Versions /\ Versions # {}
  /\ Gate \in Nat \ {0} /\ Required \in Nat \ {0}
  /\ LockHolds \in BOOLEAN
  /\ MaxSoaks \in Nat /\ MaxCycles \in Nat /\ MaxWall \in Nat /\ MaxDoubts \in Nat

VARIABLES
  wall,       \* the wall clock
  installed,  \* versions and capabilities of the installed program
  cert,       \* the row of certification_records
  evidence,   \* lifecycle_evidence: rows per account
  soaks,      \* soak_runs, in the order they started
  runner,     \* the process of run-soak
  script,     \* the process of finalize_orphan_soak.py
  accounts,   \* the table accounts
  creds,      \* accounts whose API key and secret are in the keyring
  unclear,    \* accounts with an intent in UNKNOWN or SUBMITTING
  exposed,    \* accounts with a position, or an intent in another state that
              \* is not terminal (RESERVED, PARTIALLY_FILLED, CANCEL_UNKNOWN)
  openBreak   \* an open row of recon_breaks; none is ever closed

certVars    == <<cert, evidence, soaks>>
accountVars == <<accounts, creds, unclear, exposed>>
vars == <<wall, installed, certVars, runner, script, accountVars, openBreak>>

-----------------------------------------------------------------------------
(* Types and initial state *)

Certs == [contract : BOOLEAN, fault : BOOLEAN, count : Nat, lifeAt : BOOLEAN,
          soak : BOOLEAN, valid : BOOLEAN, base : Versions \union {None}]

\* ensure_cert_row creates the row with these values when it is missing.
NewCert == [contract |-> FALSE, fault |-> FALSE, count |-> 0, lifeAt |-> FALSE,
            soak |-> FALSE, valid |-> FALSE, base |-> None]

Accounts == [mode : {"PAPER", "DEMO"}, status : {"NEW", "READY", "SAFE_LOCK"},
             elig : {"PAPER", "INELIGIBLE", "DEMO_CERTIFIED"}, active : BOOLEAN]

\* A missing row is not a row.
ASSUME NoneAssumption == None \notin Accounts

\* soak_runs, but for what nothing reads again: when it ended, the breaks.
Soaks == [start : Nat, ended : BOOLEAN, paused : BOOLEAN, passed : BOOLEAN]

\* What the last transaction of a soak has read: columns of its row, whether
\* the certificate is valid, whether it would be with this soak, the time.
Reads == [paused : BOOLEAN, passed : BOOLEAN, valid : BOOLEAN, ready : BOOLEAN,
          at : Nat]
NoRead == [paused |-> FALSE, passed |-> FALSE, valid |-> FALSE, ready |-> FALSE,
           at |-> 0]

Runners == [pc : {"off", "check", "beat", "count", "finish", "write"}, soak : Nat,
            started : Nat, want : Nat, unres : {0, 1}, read : Reads]
NoRunner == [pc |-> "off", soak |-> 0, started |-> 0, want |-> 0, unres |-> 0,
             read |-> NoRead]

Scripts == [pc : {"off", "recon", "complete", "write"}, soak : Nat, unres : {0, 1},
            read : Reads]
NoScript == [pc |-> "off", soak |-> 0, unres |-> 0, read |-> NoRead]

TypeOK ==
  /\ wall \in Nat /\ installed \in Versions
  /\ cert \in Certs /\ evidence \in [Ids -> Nat]
  /\ soaks \in Seq(Soaks)
  /\ runner \in Runners /\ (runner.pc # "off" => runner.soak \in DOMAIN soaks)
  /\ script \in Scripts /\ (script.pc # "off" => script.soak \in DOMAIN soaks)
  /\ accounts \in [Ids -> Accounts \union {None}]
  /\ creds \subseteq Ids /\ unclear \subseteq Ids /\ exposed \subseteq Ids
  /\ openBreak \in BOOLEAN

Init ==
  /\ wall = 0 /\ installed \in Versions
  /\ cert = NewCert /\ evidence = [a \in Ids |-> 0]
  /\ soaks = <<>> /\ runner = NoRunner /\ script = NoScript
  /\ accounts = [a \in Ids |-> None]
  /\ creds = {} /\ unclear = {} /\ exposed = {}
  /\ openBreak = FALSE

\* SingleInstanceGuard.acquire of a new process.
Free == LockHolds => runner.pc = "off"

\* count_unresolved_recon, as far as zero or not.
Unresolved == IF openBreak THEN 1 ELSE 0

-----------------------------------------------------------------------------
(* The environment *)

\* An upgrade of the program, of ccxt or of what the adapter can do.
Upgrade ==
  /\ installed' \in Versions \ {installed}
  /\ UNCHANGED <<wall, certVars, runner, script, accountVars, openBreak>>

\* Time passes at any moment: a suspended machine sleeps in mid-transaction.
Tick ==
  /\ wall < MaxWall /\ wall' = wall + 1
  /\ UNCHANGED <<installed, certVars, runner, script, accountVars, openBreak>>

Doubts == Cardinality(unclear) + Cardinality(exposed)

\* A submit of the account ends in UNKNOWN, or its UNKNOWN intents resolve;
\* a position or another order of it opens or closes.
IntentsChange(a) ==
  /\ accounts[a] # None
  /\ \/ /\ unclear' \in {unclear \union {a}, unclear \ {a}}
        /\ UNCHANGED exposed
     \/ /\ exposed' \in {exposed \union {a}, exposed \ {a}}
        /\ UNCHANGED unclear
  /\ Doubts' <= MaxDoubts
  /\ UNCHANGED <<wall, installed, certVars, runner, script, accounts, creds, openBreak>>

-----------------------------------------------------------------------------
(* The gates of the certificate *)

CertFrame ==
  UNCHANGED <<wall, installed, runner, script, accountVars, openBreak>>

\* Variant of Promotable that does not ask for the fault suite.
Promotable_NoFault(c) ==
  c.contract /\ c.count >= Gate /\ c.lifeAt /\ c.soak

\* try_promote_valid's test.
Promotable(c) ==
  c.contract /\ c.fault /\ c.count >= Gate /\ c.lifeAt /\ c.soak

CertMark(kind) ==
  /\ Free
  /\ cert' = IF kind = "contract" THEN [cert EXCEPT !.contract = TRUE]
                                  ELSE [cert EXCEPT !.fault = TRUE]
  /\ UNCHANGED <<evidence, soaks>> /\ CertFrame

\* set_lifecycle_count: the row forgets a count but not that it was reached.
WithCount(c, n) ==
  [contract |-> c.contract, fault |-> c.fault, count |-> n,
   lifeAt |-> c.lifeAt \/ n >= Gate, soak |-> c.soak, valid |-> c.valid,
   base |-> c.base]

\* record_completed_lifecycle: the evidence row and the count of that account
\* in the certificate, in one transaction.
Recorded(a) ==
  /\ evidence' = [evidence EXCEPT ![a] = @ + 1]
  /\ cert' = WithCount(cert, evidence'[a])

\* One round trip of run-lifecycles that ended flat, with no UNKNOWN intent;
\* other orders of the account are not looked at.
RoundTrip(a) ==
  /\ Free /\ a \in creds /\ a \notin unclear
  /\ evidence[a] < MaxCycles
  /\ Recorded(a)
  /\ exposed' \in {exposed, exposed \ {a}}
  /\ UNCHANGED <<soaks, wall, installed, runner, script, accounts, creds, unclear,
                 openBreak>>

\* A round trip that stops early: its order left UNKNOWN, or a position open.
RoundTripFails(a) ==
  /\ Free /\ a \in creds
  /\ \/ unclear' = unclear \union {a} /\ UNCHANGED exposed
     \/ exposed' = exposed \union {a} /\ UNCHANGED unclear
  /\ Doubts' <= MaxDoubts
  /\ UNCHANGED <<wall, installed, certVars, runner, script, accounts, creds, openBreak>>

\* cert-check-drift: nothing without a baseline; the versions it found take
\* the place of the baseline.
CertCheckDrift ==
  /\ Free
  /\ cert.base \notin {None, installed}
  /\ cert' = [contract |-> cert.contract, fault |-> cert.fault, count |-> cert.count,
              lifeAt |-> cert.lifeAt, soak |-> cert.soak, valid |-> FALSE,
              base |-> installed]
  /\ UNCHANGED <<evidence, soaks>> /\ CertFrame

-----------------------------------------------------------------------------
(* The soak *)

\* The SELECTs of the last transaction, of the row and of the certificate.
Read(i) ==
  [paused |-> soaks[i].paused, passed |-> soaks[i].passed, valid |-> cert.valid,
   ready |-> Promotable([cert EXCEPT !.soak = TRUE]), at |-> wall]

\* An UPDATE names the columns the transaction changed, whatever another one
\* has stored in them or in the others since: no row has a version.
Updated(new, read, stored) == IF new # read THEN new ELSE stored

Closed(row, r, passed) ==
  [start |-> row.start, ended |-> TRUE, paused |-> row.paused,
   passed |-> Updated(passed, r.passed, row.passed)]

\* The test of SoakController.complete.
Passes(row, r, unres) == ~r.paused /\ r.at - row.start >= Required /\ unres = 0

\* What complete and the promotion that follows it write.
CompleteSoak(i, r, unres) ==
  LET passed == Passes(soaks[i], r, unres)
  IN /\ soaks' = [soaks EXCEPT ![i] = Closed(soaks[i], r, passed)]
     /\ cert' = IF passed
                THEN [cert EXCEPT !.soak = TRUE, !.valid = Updated(r.ready, r.valid, @)]
                ELSE cert

\* A soak shorter than SOAK_REQUIRED closes its row and leaves the
\* certificate alone.
CloseShortSoak(i, r, unres) ==
  /\ soaks' = [soaks EXCEPT ![i] = Closed(soaks[i], r, unres = 0 /\ ~r.paused)]
  /\ UNCHANGED cert

\* run-soak --hours: the lock, the credentials, SoakController.start.
SoakStart(a, hours) ==
  /\ Free /\ runner.pc = "off"
  /\ a \in creds
  /\ Len(soaks) < MaxSoaks /\ wall + hours <= MaxWall
  /\ soaks' = Append(soaks, [start |-> wall, ended |-> FALSE, paused |-> FALSE,
                             passed |-> FALSE])
  /\ runner' = [pc |-> "check", soak |-> Len(soaks'), started |-> wall,
                want |-> hours, unres |-> 0, read |-> NoRead]
  /\ UNCHANGED <<wall, installed, cert, evidence, script, accountVars, openBreak>>

\* The transaction at the top of the loop: an owner's pause ends the run.
SoakCheck ==
  /\ runner.pc = "check"
  /\ runner' = IF soaks[runner.soak].paused THEN NoRunner
               ELSE [runner EXCEPT !.pc = "beat"]
  /\ UNCHANGED <<wall, installed, certVars, script, accountVars, openBreak>>

LongEnough == wall - runner.started >= runner.want

\* The rest of the loop: recovery after a gap, reconciliation, and, unless
\* the time is up, a sleep that a suspended machine makes longer.  What the
\* reconciliation raises is swallowed; what the recovery raises is SoakDies.
SoakBeat ==
  /\ runner.pc = "beat"
  /\ openBreak' \in {openBreak, TRUE}
  /\ IF LongEnough
     THEN /\ runner' = [runner EXCEPT !.pc = "count"]
          /\ UNCHANGED wall
     ELSE /\ runner' = [runner EXCEPT !.pc = "check"]
          /\ wall' \in (wall + 1)..MaxWall
  /\ UNCHANGED <<installed, certVars, script, accountVars>>

\* The unresolved breaks are counted in a transaction of their own.
SoakCount ==
  /\ runner.pc = "count"
  /\ runner' = [runner EXCEPT !.pc = "finish", !.unres = Unresolved]
  /\ UNCHANGED <<wall, installed, certVars, script, accountVars, openBreak>>

SoakRead ==
  /\ runner.pc = "finish"
  /\ runner' = [runner EXCEPT !.pc = "write", !.read = Read(runner.soak)]
  /\ UNCHANGED <<wall, installed, certVars, script, accountVars, openBreak>>

SoakFinish ==
  /\ runner.pc = "write"
  /\ IF runner.want >= Required THEN CompleteSoak(runner.soak, runner.read, runner.unres)
                                ELSE CloseShortSoak(runner.soak, runner.read, runner.unres)
  /\ runner' = NoRunner
  /\ UNCHANGED <<wall, installed, evidence, script, accountVars, openBreak>>

\* The process dies, or the recovery after a gap raises: the row stays open.
SoakDies ==
  /\ runner.pc # "off"
  /\ runner' = NoRunner
  /\ UNCHANGED <<wall, installed, certVars, script, accountVars, openBreak>>

\* soak-abort, with an id or for the newest open soak: mark_owner_pause asks
\* for no more than that the row exists.  A row completed between its own read
\* and write comes out as one that is paused between those of complete.
SoakAbort(i) ==
  /\ Free
  /\ soaks' = [soaks EXCEPT ![i] =
        [start |-> soaks[i].start, ended |-> TRUE, paused |-> TRUE,
         passed |-> FALSE]]
  /\ UNCHANGED <<cert, evidence>> /\ CertFrame

-----------------------------------------------------------------------------
(* finalize_orphan_soak.py *)

ScriptFrame == UNCHANGED <<wall, installed, evidence, runner, accountVars>>

\* The first transaction: an open soak, not paused, old enough.  Whether its
\* runner lived so long, or lives, is not looked at.
ScriptStart(i) ==
  /\ script.pc = "off"
  /\ ~soaks[i].ended /\ ~soaks[i].paused
  /\ wall - soaks[i].start >= Required
  /\ script' = [pc |-> "recon", soak |-> i, unres |-> 0, read |-> NoRead]
  /\ UNCHANGED <<cert, soaks, openBreak>> /\ ScriptFrame

\* A count, the recovery and the reconciliation, and a second count that an
\* error in between leaves out.  The script stops on a break it counted.
ScriptRecon ==
  /\ script.pc = "recon"
  /\ openBreak' \in {openBreak, TRUE}
  /\ \E seen \in {openBreak, openBreak'} :
        script' = IF seen THEN NoScript
                  ELSE [script EXCEPT !.pc = "complete"]
  /\ UNCHANGED <<cert, soaks>> /\ ScriptFrame

ScriptRead ==
  /\ script.pc = "complete"
  /\ script' = [script EXCEPT !.pc = "write", !.read = Read(script.soak)]
  /\ UNCHANGED <<cert, soaks, openBreak>> /\ ScriptFrame

ScriptComplete ==
  /\ script.pc = "write"
  /\ CompleteSoak(script.soak, script.read, script.unres)
  /\ script' = NoScript
  /\ UNCHANGED openBreak /\ ScriptFrame

ScriptDies ==
  /\ script.pc # "off"
  /\ script' = NoScript
  /\ UNCHANGED <<cert, soaks, openBreak>> /\ ScriptFrame

-----------------------------------------------------------------------------
(* The active account *)

AccountFrame ==
  UNCHANGED <<wall, installed, evidence, soaks, runner, script, unclear, exposed,
              openBreak>>

Rows(t) == {a \in Ids : t[a] # None}
Active(t) == {a \in Rows(t) : t[a].active}
OfMode(t, m) == {a \in Rows(t) : t[a].mode = m}

\* evaluate_preconditions for the active account, for the target when there
\* is none.  A break names no account, so it counts for all; every caller
\* passes a position of 0.0, so none of them looks at exposed.
Quiet(t, target) ==
  /\ ~openBreak
  /\ (IF Active(t) = {} THEN {target} ELSE Active(t)) \intersect unclear = {}

\* Variant of Activated that leaves the others as they are.
Activated_Adds(t, target) ==
  [a \in Ids |-> IF t[a] # None /\ a = target
                 THEN [mode |-> t[a].mode, status |-> t[a].status, elig |-> t[a].elig,
                       active |-> TRUE] ELSE t[a]]

\* All accounts off, then the target on.
Activated(t, target) ==
  [a \in Ids |-> IF t[a] = None THEN None
                 ELSE [mode |-> t[a].mode, status |-> t[a].status, elig |-> t[a].elig,
                       active |-> a = target]]

\* The row enable_demo writes; an account of any mode becomes a DEMO account.
Enabled(t, target) ==
  [t EXCEPT ![target] =
     [mode |-> "DEMO", status |-> "READY", elig |-> "DEMO_CERTIFIED",
      active |-> t[target] # None /\ t[target].active]]

\* Variant of MayEnable with the certificate taken for granted.
MayEnable_Always == TRUE

MayEnable == cert.valid

\* capture_baseline, best effort.
Baseline == cert' \in {cert, [cert EXCEPT !.base = installed]}

\* headless enable-demo: a refused switch rolls everything back.
HeadlessEnable(a) ==
  /\ Free /\ MayEnable
  /\ Quiet(Enabled(accounts, a), a)
  /\ accounts' = Activated(Enabled(accounts, a), a)
  /\ Baseline
  /\ UNCHANGED creds /\ AccountFrame

\* BrokerHubState.demo_ready_for_connection: the button is enabled.
DemoReady == OfMode(accounts, "DEMO") # {} \/ creds # {}

\* Broker Hub enable_demo: a refused switch is a result like any other, and
\* what was written before it is committed.
HubEnable(a) ==
  /\ Free /\ MayEnable /\ DemoReady
  /\ LET t == Enabled(accounts, a)
     IN accounts' = IF Quiet(t, a) THEN Activated(t, a) ELSE t
  /\ Baseline
  /\ UNCHANGED creds /\ AccountFrame

DisableDemo ==
  /\ Free
  /\ accounts' = [a \in Ids |->
        IF a \in OfMode(accounts, "DEMO")
        THEN [mode |-> "DEMO", status |-> "SAFE_LOCK", elig |-> accounts[a].elig,
              active |-> FALSE]
        ELSE accounts[a]]
  /\ UNCHANGED <<cert, creds>> /\ AccountFrame

\* switch-account paper: a missing row is made, and stays when the switch is
\* refused.  Were the id taken by a DEMO account, the insert would fail.
SwitchPaper ==
  LET t == IF OfMode(accounts, "PAPER") = {}
           THEN [accounts EXCEPT ![Paper] =
                   [mode |-> "PAPER", status |-> "READY", elig |-> "PAPER",
                    active |-> FALSE]]
           ELSE accounts
  IN /\ Free
     /\ OfMode(accounts, "PAPER") # {} \/ accounts[Paper] = None
     /\ \E a \in OfMode(t, "PAPER") :
           accounts' = IF Quiet(t, a) THEN Activated(t, a) ELSE t
     /\ UNCHANGED <<cert, creds>> /\ AccountFrame

\* switch-account demo: any DEMO row will do, the certificate is not asked.
SwitchDemo ==
  /\ Free
  /\ \E a \in OfMode(accounts, "DEMO") :
        Quiet(accounts, a) /\ accounts' = Activated(accounts, a)
  /\ UNCHANGED <<cert, creds>> /\ AccountFrame

\* demo-store-creds and the form of the Broker Hub: an existing row is kept.
\* The keyring is written first; the transaction after it may fail.
StoreCreds(a) ==
  /\ Free
  /\ creds' = creds \union {a}
  /\ \/ UNCHANGED accounts
     \/ /\ accounts[a] = None
        /\ accounts' = [accounts EXCEPT ![a] =
                          [mode |-> "DEMO", status |-> "NEW", elig |-> "INELIGIBLE",
                           active |-> FALSE]]
  /\ UNCHANGED cert /\ AccountFrame

-----------------------------------------------------------------------------
(* The specification *)

Environment == Upgrade \/ Tick \/ \E a \in Ids : IntentsChange(a)

Evidence ==
  \/ CertMark("contract") \/ CertMark("fault") \/ CertCheckDrift
  \/ \E a \in Ids : RoundTrip(a) \/ RoundTripFails(a)

Soak ==
  \/ \E a \in Ids, hours \in {1, Required} : SoakStart(a, hours)
  \/ SoakCheck \/ SoakBeat \/ SoakCount \/ SoakRead \/ SoakFinish \/ SoakDies
  \/ \E i \in DOMAIN soaks : SoakAbort(i)

Script ==
  \/ \E i \in DOMAIN soaks : ScriptStart(i)
  \/ ScriptRecon \/ ScriptRead \/ ScriptComplete \/ ScriptDies

Hub ==
  \/ \E a \in Ids : HeadlessEnable(a) \/ HubEnable(a) \/ StoreCreds(a)
  \/ DisableDemo \/ SwitchPaper \/ SwitchDemo

Next == Environment \/ Evidence \/ Soak \/ Script \/ Hub

Spec == Init /\ [][Next]_vars

-----------------------------------------------------------------------------
(* Safety *)

\* A soak that is over and began as long ago as one has to last.
LongSoak(row) == row.ended /\ wall - row.start >= Required

\* A valid certificate rests on evidence that is still in the tables: an
\* account with enough round trips, and a soak that began Required ago; and on
\* both suites.  Short soaks, another account's round trips, drift checks, a
\* later re-validation and stale reads never add up to one without them.
\* Whether that soak passed, PassedSoakBehindValid asks.
ValidOnEvidence ==
  cert.valid => /\ cert.contract /\ cert.fault
                /\ \E a \in Ids : evidence[a] >= Gate
                /\ \E i \in DOMAIN soaks : LongSoak(soaks[i])

\* "Owner pause fails gate" (core/certify/soak.py): a soak the owner paused is
\* never a passed one.  A pause committed between the two halves of complete
\* leaves both columns set.
PausedNeverPasses == \A i \in DOMAIN soaks : soaks[i].paused => ~soaks[i].passed

\* "Persist certification_records.valid=true only when 2-5 recorded", where 5
\* is the soak (contracts/certification-evidence.md).  soak-abort of a soak
\* that is over takes its pass back and leaves the certificate valid.
PassedSoakBehindValid == cert.valid => \E i \in DOMAIN soaks : soaks[i].passed

\* At most one account is active, whatever mixture of enabling, switching,
\* disabling and re-labelling of accounts came before.
OneActive == \A a, b \in Active(accounts) : a = b

\* No account is marked DEMO_CERTIFIED, and no DEMO account READY, unless all
\* four gates were passed at some time: through switches, refused enables
\* that are committed all the same, disabling and stored credentials.
CertifiedOnEvidence ==
  \A a \in Rows(accounts) :
     (\/ accounts[a].elig = "DEMO_CERTIFIED"
      \/ accounts[a].mode = "DEMO" /\ accounts[a].status = "READY") =>
        cert.contract /\ cert.fault /\ cert.lifeAt /\ cert.soak

\* "Current active account is flat", "No intents in ... non-terminal
\* risk-increasing states" (contracts/account-switch.md): no account takes the
\* place of one with a position or an open order.  The switch looks for UNKNOWN
\* and SUBMITTING only, and every caller says that the position is 0.0.
ExposedStaysActive ==
  [][\A a, b \in Ids :
       (a \in Active(accounts) /\ b \in Active(accounts') /\ a # b) => a \notin exposed]_vars

\* "For target DEMO: certification_records.valid=true for locked tuple"
\* (specs/002-d1b-ccxt-demo/contracts/account-switch.md): a DEMO account is
\* made active under a valid certificate only.  switch-account demo does not
\* ask.
DemoActivatedCertified ==
  [][\A a \in Active(accounts') \ Active(accounts) :
       accounts'[a].mode = "DEMO" => cert.valid]_vars

=============================================================================
