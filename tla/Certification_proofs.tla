------------------------- MODULE Certification_proofs -------------------------
(***************************************************************************)
(* Theorems about Certification, for every set of accounts and versions,   *)
(* every gate and soak length, and any number of soaks and round trips.    *)
(***************************************************************************)
EXTENDS Certification, SequenceTheorems, TLAPS

LEMMA Constants ==
  /\ Paper \in Ids /\ None \notin Versions /\ None \notin Accounts
  /\ Gate \in Nat /\ Required \in Nat
  /\ MaxSoaks \in Nat /\ MaxCycles \in Nat /\ MaxWall \in Nat
BY CertificationAssumption, NoneAssumption

(***************************************************************************)
(* Operators on the rows                                                   *)
(***************************************************************************)

\* Replacing one soak leaves a sequence of as many soaks.
LEMMA SoakReplaced ==
  ASSUME NEW s \in Seq(Soaks), NEW i \in DOMAIN s, NEW row \in Soaks
  PROVE  /\ [s EXCEPT ![i] = row] \in Seq(Soaks)
         /\ DOMAIN [s EXCEPT ![i] = row] = DOMAIN s
         /\ \A j \in DOMAIN s : [s EXCEPT ![i] = row][j] = IF j = i THEN row ELSE s[j]
<1>1. i \in 1..Len(s) /\ DOMAIN s = 1..Len(s)
  OBVIOUS
<1>2. /\ [s EXCEPT ![i] = row] \in Seq(Soaks)
      /\ Len([s EXCEPT ![i] = row]) = Len(s)
      /\ \A j \in 1..Len(s) : [s EXCEPT ![i] = row][j] = IF j = i THEN row ELSE s[j]
  BY <1>1, ExceptSeq
<1>3. QED
  BY <1>1, <1>2

\* A soak that starts is the last, the others stay.
LEMMA SoakAppended ==
  ASSUME NEW s \in Seq(Soaks), NEW row \in Soaks
  PROVE  /\ Append(s, row) \in Seq(Soaks)
         /\ Len(Append(s, row)) = Len(s) + 1
         /\ DOMAIN s \subseteq DOMAIN Append(s, row)
         /\ Len(s) + 1 \in DOMAIN Append(s, row)
         /\ Append(s, row)[Len(s) + 1] = row
         /\ \A j \in DOMAIN Append(s, row) : j \in DOMAIN s \/ j = Len(s) + 1
         /\ \A j \in DOMAIN s : Append(s, row)[j] = s[j] /\ j # Len(s) + 1
OBVIOUS

\* A row that is closed, from whatever was read of it, keeps its start.
LEMMA ClosedRow ==
  ASSUME NEW row \in Soaks, NEW r \in Reads, NEW p \in BOOLEAN
  PROVE  /\ Closed(row, r, p) \in Soaks
         /\ Closed(row, r, p).ended /\ Closed(row, r, p).start = row.start
<1> DEFINE passed == Updated(p, r.passed, row.passed)
<1>1. row.start \in Nat /\ row.paused \in BOOLEAN /\ row.passed \in BOOLEAN
  BY DEF Soaks
<1>2. passed \in BOOLEAN
  BY <1>1 DEF Updated
<1>3. Closed(row, r, p) = [start |-> row.start, ended |-> TRUE, paused |-> row.paused,
                           passed |-> passed]
  BY DEF Closed
<1> HIDE DEF passed
<1>4. QED
  BY <1>1, <1>2, <1>3 DEF Soaks

\* Reaching a count keeps the row a row, and its other flags.
LEMMA CountedCert ==
  ASSUME NEW c \in Certs, NEW n \in Nat
  PROVE  /\ WithCount(c, n) \in Certs
         /\ WithCount(c, n).contract = c.contract /\ WithCount(c, n).fault = c.fault
         /\ WithCount(c, n).soak = c.soak /\ WithCount(c, n).valid = c.valid
         /\ WithCount(c, n).lifeAt = (c.lifeAt \/ n >= Gate)
<1> DEFINE at == c.lifeAt \/ n >= Gate
<1>1. c.contract \in BOOLEAN /\ c.fault \in BOOLEAN /\ c.soak \in BOOLEAN
      /\ c.valid \in BOOLEAN /\ c.base \in Versions \union {None}
  BY DEF Certs
<1>2. at \in BOOLEAN
  OBVIOUS
<1>3. WithCount(c, n) = [contract |-> c.contract, fault |-> c.fault, count |-> n,
                         lifeAt |-> at, soak |-> c.soak, valid |-> c.valid,
                         base |-> c.base]
  BY DEF WithCount
<1>4. at = (c.lifeAt \/ n >= Gate)
  OBVIOUS
<1> HIDE DEF at
<1>5. QED
  BY <1>1, <1>2, <1>3, <1>4 DEF Certs

\* What a passed soak makes of the certificate, from whatever was read of it.
LEMMA PassedCert ==
  ASSUME NEW c \in Certs, NEW r \in Reads
  PROVE  LET d == [c EXCEPT !.soak = TRUE, !.valid = Updated(r.ready, r.valid, @)]
         IN /\ d \in Certs /\ d.soak
            /\ d.contract = c.contract /\ d.fault = c.fault /\ d.lifeAt = c.lifeAt
            /\ d.valid => c.valid \/ r.ready
<1> DEFINE v == Updated(r.ready, r.valid, c.valid)
           d == [c EXCEPT !.soak = TRUE, !.valid = v]
<1>1. r.ready \in BOOLEAN /\ c.valid \in BOOLEAN
  BY DEF Reads, Certs
<1>2. v \in BOOLEAN /\ (v => c.valid \/ r.ready)
  BY <1>1 DEF Updated
<1>3. [c EXCEPT !.soak = TRUE, !.valid = Updated(r.ready, r.valid, @)] = d
  BY DEF Certs
<1> HIDE DEF v
<1>4. /\ d \in Certs /\ d.soak
      /\ d.contract = c.contract /\ d.fault = c.fault /\ d.lifeAt = c.lifeAt
      /\ d.valid = v
  BY <1>2 DEF Certs
<1>5. QED
  BY <1>2, <1>3, <1>4

\* What a transaction reads has the types of the columns.
LEMMA ReadTypes ==
  ASSUME TypeOK, NEW i \in DOMAIN soaks
  PROVE  /\ Read(i) \in Reads /\ Read(i).at = wall
         /\ Read(i).ready => cert.contract /\ cert.fault /\ cert.lifeAt
<1> DEFINE c == [cert EXCEPT !.soak = TRUE]
           ok == Promotable(c)
<1>1. cert \in Certs /\ wall \in Nat /\ soaks[i] \in Soaks
  BY DEF TypeOK
<1>2. c \in Certs /\ c.contract = cert.contract /\ c.fault = cert.fault
      /\ c.lifeAt = cert.lifeAt
  BY <1>1 DEF Certs
<1>3. ok \in BOOLEAN /\ (ok => cert.contract /\ cert.fault /\ cert.lifeAt)
  BY <1>2 DEF Promotable, Certs
<1>4. Read(i) = [paused |-> soaks[i].paused, passed |-> soaks[i].passed,
                 valid |-> cert.valid, ready |-> ok, at |-> wall]
  BY DEF Read
<1> HIDE DEF ok
<1>5. QED
  BY <1>1, <1>3, <1>4 DEF Reads, Soaks, Certs

(***************************************************************************)
(* Operators on the table of accounts                                      *)
(***************************************************************************)

Tables == [Ids -> Accounts \union {None}]

\* A row that says its account was certified.
Marked(row) ==
  \/ row.elig = "DEMO_CERTIFIED"
  \/ row.mode = "DEMO" /\ row.status = "READY"

\* Activation leaves one active account at most, and marks nobody.
LEMMA ActivatedTable ==
  ASSUME NEW t \in Tables, NEW target \in Ids
  PROVE  /\ Activated(t, target) \in Tables
         /\ Active(Activated(t, target)) \subseteq {target}
         /\ Rows(Activated(t, target)) = Rows(t)
         /\ \A a \in Rows(t) : Marked(Activated(t, target)[a]) <=> Marked(t[a])
<1> DEFINE on(a) == a = target
           new(a) == [mode |-> t[a].mode, status |-> t[a].status, elig |-> t[a].elig,
                      active |-> on(a)]
<1>1. Activated(t, target) = [a \in Ids |-> IF t[a] = None THEN None ELSE new(a)]
  BY DEF Activated
<1>2. ASSUME NEW a \in Ids, t[a] # None
      PROVE  new(a) \in Accounts /\ new(a).active = on(a)
             /\ new(a).mode = t[a].mode /\ new(a).status = t[a].status
             /\ new(a).elig = t[a].elig
  <2>1. t[a] \in Accounts
    BY <1>2 DEF Tables
  <2>2. on(a) \in BOOLEAN
    OBVIOUS
  <2> HIDE DEF on
  <2>3. QED
    BY <2>1, <2>2 DEF Accounts
<1> HIDE DEF new
<1>3. \A a \in Ids : Activated(t, target)[a] = IF t[a] = None THEN None ELSE new(a)
  BY <1>1
<1>4. Activated(t, target) \in Tables
  BY <1>1, <1>2 DEF Tables
<1>5. Rows(Activated(t, target)) = Rows(t)
  BY <1>2, <1>3, Constants DEF Rows
<1>6. \A a \in Rows(t) : Activated(t, target)[a] = new(a)
  BY <1>3 DEF Rows
<1>7. Active(Activated(t, target)) \subseteq {target}
  BY <1>2, <1>5, <1>6 DEF Active, Rows
<1>8. \A a \in Rows(t) : Marked(Activated(t, target)[a]) <=> Marked(t[a])
  BY <1>2, <1>6 DEF Rows, Marked
<1>9. QED
  BY <1>4, <1>5, <1>7, <1>8

\* Replacing one row by one as active as before leaves the active accounts.
LEMMA RowReplaced ==
  ASSUME NEW t \in Tables, NEW a \in Ids, NEW row \in Accounts, NEW u \in Tables,
         u[a] = row, \A b \in Ids \ {a} : u[b] = t[b], row.active <=> a \in Active(t)
  PROVE  Active(u) = Active(t) /\ Rows(u) = Rows(t) \union {a}
<1>2. row # None
  BY Constants
<1>3. Rows(u) = Rows(t) \union {a}
  BY <1>2 DEF Rows
<1>4. \A b \in Ids : b \in Active(u) <=> b \in Active(t)
  BY <1>2 DEF Active, Rows
<1>5. Active(u) = Active(t)
  BY <1>4 DEF Active, Rows
<1>6. QED
  BY <1>3, <1>5

(***************************************************************************)
(* What a step does to the certificate, and the types                      *)
(***************************************************************************)

\* Flags stay, evidence grows, and a certificate becomes valid, or a count
\* reaches the gate, for a reason that the tables hold.
CertMoves ==
  /\ cert.contract => cert'.contract
  /\ cert.fault => cert'.fault
  /\ cert.lifeAt => cert'.lifeAt
  /\ cert.soak => cert'.soak
  /\ cert'.valid =>
        cert.valid \/ (cert'.contract /\ cert'.fault /\ cert'.lifeAt /\ cert'.soak)
  /\ cert'.lifeAt => cert.lifeAt \/ \E a \in Ids : evidence'[a] >= Gate
  /\ \A a \in Ids : evidence'[a] >= evidence[a]

\* A table nobody wrote keeps its type.
LEMMA CertUnmoved ==
  ASSUME TypeOK, UNCHANGED <<cert, evidence>>
  PROVE  CertMoves
BY DEF TypeOK, CertMoves

LEMMA EnvironmentTypes ==
  ASSUME TypeOK, Environment
  PROVE  TypeOK' /\ CertMoves
<1>1. CASE Upgrade
  BY <1>1, CertUnmoved DEF TypeOK, Upgrade, certVars, accountVars
<1>2. CASE Tick
  BY <1>2, CertUnmoved DEF TypeOK, Tick, certVars, accountVars
<1>3. ASSUME NEW a \in Ids, IntentsChange(a)
      PROVE  TypeOK' /\ CertMoves
  BY <1>3, CertUnmoved DEF TypeOK, IntentsChange, certVars, accountVars
<1>4. QED
  BY <1>1, <1>2, <1>3 DEF Environment

\* The fields of the certificate, for the provers.
LEMMA CertFields ==
  ASSUME TypeOK
  PROVE  /\ cert \in Certs /\ evidence \in [Ids -> Nat]
         /\ cert.contract \in BOOLEAN /\ cert.fault \in BOOLEAN
         /\ cert.lifeAt \in BOOLEAN /\ cert.soak \in BOOLEAN /\ cert.valid \in BOOLEAN
         /\ cert.count \in Nat /\ cert.base \in Versions \union {None}
BY DEF TypeOK, Certs

LEMMA EvidenceTypes ==
  ASSUME TypeOK, Evidence
  PROVE  TypeOK' /\ CertMoves /\ cert'.soak = cert.soak /\ UNCHANGED <<soaks, runner, script, wall>>
<1> USE CertFields
<1>1. ASSUME CertMark("contract") \/ CertMark("fault")
      PROVE  TypeOK' /\ CertMoves /\ cert'.soak = cert.soak
             /\ UNCHANGED <<soaks, runner, script, wall>>
  <2>1. cert' \in {[cert EXCEPT !.contract = TRUE], [cert EXCEPT !.fault = TRUE]}
        /\ UNCHANGED <<evidence, soaks, wall, installed, runner, script,
                       accounts, creds, unclear, exposed, openBreak>>
    BY <1>1 DEF CertMark, CertFrame, accountVars
  <2>2. cert' \in Certs
    BY <2>1 DEF Certs
  <2>3. CertMoves /\ cert'.soak = cert.soak
    BY <2>1 DEF CertMoves, Certs
  <2>4. QED
    BY <2>1, <2>2, <2>3 DEF TypeOK
<1>2. CASE CertCheckDrift
  <2>1. UNCHANGED <<evidence, soaks, wall, installed, runner, script,
                    accounts, creds, unclear, exposed, openBreak>>
    BY <1>2 DEF CertCheckDrift, CertFrame, accountVars
  <2>2. cert' = [contract |-> cert.contract, fault |-> cert.fault, count |-> cert.count,
                 lifeAt |-> cert.lifeAt, soak |-> cert.soak, valid |-> FALSE,
                 base |-> installed]
    BY <1>2 DEF CertCheckDrift
  <2>3. installed \in Versions
    BY DEF TypeOK
  <2>4. cert' \in Certs
    BY <2>2, <2>3 DEF Certs
  <2>5. CertMoves /\ cert'.soak = cert.soak
    BY <2>1, <2>2 DEF CertMoves
  <2>6. QED
    BY <2>1, <2>4, <2>5 DEF TypeOK
<1>3. ASSUME NEW a \in Ids, RoundTrip(a)
      PROVE  TypeOK' /\ CertMoves /\ cert'.soak = cert.soak
             /\ UNCHANGED <<soaks, runner, script, wall>>
  <2>1. UNCHANGED <<soaks, wall, installed, runner, script,
                    accounts, creds, unclear, openBreak>> /\ exposed' \subseteq exposed
    BY <1>3 DEF RoundTrip
  <2>2. evidence' = [evidence EXCEPT ![a] = @ + 1] /\ cert' = WithCount(cert, evidence'[a])
    BY <1>3 DEF RoundTrip, Recorded
  <2>3. evidence' \in [Ids -> Nat] /\ \A b \in Ids : evidence'[b] >= evidence[b]
    BY <2>2
  <2> DEFINE n == evidence'[a]
  <2>4. n \in Nat
    BY <2>3
  <2>5. cert' = WithCount(cert, n)
    BY <2>2
  <2>6. n >= Gate => \E b \in Ids : evidence'[b] >= Gate
    OBVIOUS
  <2> HIDE DEF n
  <2>7. /\ cert' \in Certs
        /\ cert'.contract = cert.contract /\ cert'.fault = cert.fault
        /\ cert'.soak = cert.soak /\ cert'.valid = cert.valid
        /\ cert'.lifeAt = (cert.lifeAt \/ n >= Gate)
    BY <2>4, <2>5, CountedCert
  <2>8. CertMoves
    BY <2>3, <2>6, <2>7 DEF CertMoves
  <2>9. QED
    BY <2>1, <2>3, <2>7, <2>8 DEF TypeOK
<1>4. ASSUME NEW a \in Ids, RoundTripFails(a)
      PROVE  TypeOK' /\ CertMoves /\ cert'.soak = cert.soak
             /\ UNCHANGED <<soaks, runner, script, wall>>
  BY <1>4, CertUnmoved DEF TypeOK, RoundTripFails, certVars, accountVars
<1>5. QED
  BY <1>1, <1>2, <1>3, <1>4 DEF Evidence

(***************************************************************************)
(* The soaks                                                               *)
(***************************************************************************)

\* What a transaction read is no later than now, and no flag it saw set is
\* taken back: the certificate it would make valid has passed its other gates.
ReadKept(r, w, c) == r.at <= w /\ (r.ready => c.contract /\ c.fault /\ c.lifeAt)

\* The soak gate rests on a long soak, and both halves of complete know it.
SoakEvidence ==
  /\ ReadKept(runner.read, wall, cert)
  /\ ReadKept(script.read, wall, cert)
  /\ cert.soak => \E i \in DOMAIN soaks : LongSoak(soaks[i])

\* What every step keeps.
Kept == TypeOK' /\ CertMoves /\ SoakEvidence'

LEMMA RowOf ==
  ASSUME TypeOK, NEW i \in DOMAIN soaks
  PROVE  /\ soaks[i] \in Soaks /\ soaks[i].start \in Nat
         /\ soaks[i].ended \in BOOLEAN /\ soaks[i].paused \in BOOLEAN
         /\ soaks[i].passed \in BOOLEAN
<1>1. soaks[i] \in Soaks
  BY DEF TypeOK
<1>2. QED
  BY <1>1 DEF Soaks

\* Reads stay good while flags and the clock only rise.
LEMMA ReadStays ==
  ASSUME TypeOK, CertMoves, wall' \in Nat, wall' >= wall,
         NEW r \in Reads, ReadKept(r, wall, cert)
  PROVE  ReadKept(r, wall', cert')
<1>1. r.at \in Nat /\ wall \in Nat
  BY DEF Reads, TypeOK
<1>2. QED
  BY <1>1 DEF ReadKept, CertMoves

LEMMA ReadsOf ==
  ASSUME TypeOK
  PROVE  runner.read \in Reads /\ script.read \in Reads /\ wall \in Nat
BY DEF TypeOK, Runners, Scripts

LEMMA NoReadKept ==
  ASSUME NEW w \in Nat, NEW c
  PROVE  NoRead \in Reads /\ ReadKept(NoRead, w, c)
BY DEF NoRead, Reads, ReadKept

\* Long soaks stay long: rows keep their start, and what is over stays over.
LEMMA LongStays ==
  ASSUME TypeOK, wall' \in Nat, wall' >= wall,
         NEW i \in DOMAIN soaks, LongSoak(soaks[i]),
         soaks'[i].start = soaks[i].start, soaks[i].ended => soaks'[i].ended
  PROVE  soaks'[i].ended /\ wall' - soaks'[i].start >= Required
<1>1. soaks[i].start \in Nat /\ wall \in Nat /\ Required \in Nat
  BY RowOf, Constants DEF TypeOK
<1>2. QED
  BY <1>1 DEF LongSoak

\* A step that keeps the rows, or closes one, keeps the evidence, if a gate that
\* it sets rests on a long soak and what it reads is good.
LEMMA EvidenceKept ==
  ASSUME TypeOK, SoakEvidence, TypeOK', CertMoves, wall' >= wall,
         DOMAIN soaks \subseteq DOMAIN soaks',
         \A j \in DOMAIN soaks : /\ soaks'[j].start = soaks[j].start
                                 /\ soaks[j].ended => soaks'[j].ended,
         runner'.read = runner.read \/ ReadKept(runner'.read, wall', cert'),
         script'.read = script.read \/ ReadKept(script'.read, wall', cert'),
         cert'.soak => \/ cert.soak
                       \/ \E j \in DOMAIN soaks' :
                            soaks'[j].ended /\ wall' - soaks'[j].start >= Required
  PROVE  Kept
<1>1. wall' \in Nat
  BY DEF TypeOK
<1>2. ReadKept(runner.read, wall', cert') /\ ReadKept(script.read, wall', cert')
  BY <1>1, ReadsOf, ReadStays DEF SoakEvidence
<1>3. ReadKept(runner'.read, wall', cert') /\ ReadKept(script'.read, wall', cert')
  BY <1>2
<1>4. cert.soak => \E j \in DOMAIN soaks' :
                      soaks'[j].ended /\ wall' - soaks'[j].start >= Required
  BY <1>1, LongStays DEF SoakEvidence
<1>5. cert'.soak => \E j \in DOMAIN soaks' : LongSoak(soaks[j])'
  BY <1>4 DEF LongSoak
<1>6. SoakEvidence'
  BY <1>3, <1>5 DEF SoakEvidence
<1>7. QED
  BY <1>6 DEF Kept

LEMMA SoaksUntouched ==
  ASSUME TypeOK, SoakEvidence, TypeOK', CertMoves, cert'.soak = cert.soak,
         UNCHANGED <<soaks, runner, script>>, wall' >= wall
  PROVE  Kept
BY EvidenceKept

LEMMA SoakStartStep ==
  ASSUME TypeOK, SoakEvidence, NEW a \in Ids, NEW hours \in {1, Required},
         SoakStart(a, hours)
  PROVE  Kept
<1> DEFINE row == [start |-> wall, ended |-> FALSE, paused |-> FALSE, passed |-> FALSE]
           n == Len(soaks) + 1
<1>1. wall \in Nat /\ soaks \in Seq(Soaks) /\ hours \in Nat /\ Len(soaks) \in Nat
  BY Constants DEF TypeOK
<1>2. row \in Soaks
  BY <1>1 DEF Soaks
<1>3. soaks' = Append(soaks, row) /\ wall' = wall
      /\ UNCHANGED <<wall, installed, cert, evidence, script,
                     accounts, creds, unclear, exposed, openBreak>>
  BY DEF SoakStart, accountVars
<1> HIDE DEF row
<1>4. /\ soaks' \in Seq(Soaks) /\ DOMAIN soaks \subseteq DOMAIN soaks'
      /\ Len(soaks') = n /\ n \in DOMAIN soaks'
      /\ \A j \in DOMAIN soaks : soaks'[j] = soaks[j]
  BY <1>1, <1>2, <1>3, SoakAppended
<1>5. runner' = [pc |-> "check", soak |-> n, started |-> wall, want |-> hours, unres |-> 0,
                 read |-> NoRead]
  BY <1>4 DEF SoakStart
<1>6. runner' \in Runners /\ runner'.soak = n /\ runner'.read = NoRead
  BY <1>1, <1>5, NoReadKept DEF Runners
<1> HIDE DEF n
<1>7. TypeOK'
  BY <1>3, <1>4, <1>6 DEF TypeOK
<1>8. CertMoves
  BY <1>3, CertUnmoved
<1>9. ReadKept(runner'.read, wall', cert')
  BY <1>1, <1>3, <1>6, NoReadKept
<1>10. QED
  BY <1>1, <1>3, <1>4, <1>7, <1>8, <1>9, EvidenceKept

\* The steps of the runner that write no table.
LEMMA RunnerStep ==
  ASSUME TypeOK, SoakEvidence, SoakCheck \/ SoakBeat \/ SoakCount \/ SoakRead \/ SoakDies
  PROVE  Kept
<1>1. UNCHANGED <<installed, cert, evidence, soaks, script, accounts, creds, unclear, exposed>>
  BY DEF SoakCheck, SoakBeat, SoakCount, SoakRead, SoakDies, certVars, accountVars
<1>2. runner \in Runners /\ wall \in Nat /\ runner.pc # "off"
      /\ runner.soak \in DOMAIN soaks /\ MaxWall \in Nat
  BY Constants DEF TypeOK, SoakCheck, SoakBeat, SoakCount, SoakRead, SoakDies
<1>3. wall' \in Nat /\ wall' >= wall
  <2>1. wall' = wall \/ wall' \in (wall + 1)..MaxWall
    BY DEF SoakCheck, SoakBeat, SoakCount, SoakRead, SoakDies
  <2>2. QED
    BY <1>2, <2>1
<1>4. openBreak' \in BOOLEAN
  BY DEF SoakCheck, SoakBeat, SoakCount, SoakRead, SoakDies, TypeOK
<1>5. /\ runner' \in Runners
      /\ runner'.pc # "off" => runner'.soak = runner.soak
      /\ \/ runner'.read \in {runner.read, NoRead}
         \/ runner'.read = Read(runner.soak) /\ wall' = wall
  <2>1. NoRunner \in Runners /\ NoRunner.pc = "off" /\ NoRunner.read = NoRead
    BY NoReadKept DEF NoRunner, Runners
  <2>2. CASE SoakCheck
    BY <1>2, <2>1, <2>2 DEF SoakCheck, Runners
  <2>3. CASE SoakBeat
    BY <1>2, <2>3 DEF SoakBeat, Runners
  <2>4. CASE SoakCount
    BY <1>2, <2>4 DEF SoakCount, Runners, Unresolved
  <2>5. CASE SoakDies
    BY <2>1, <2>5 DEF SoakDies
  <2>6. CASE SoakRead
    <3>1. Read(runner.soak) \in Reads
      BY <1>2, ReadTypes
    <3>2. runner' = [runner EXCEPT !.pc = "write", !.read = Read(runner.soak)] /\ wall' = wall
      BY <2>6 DEF SoakRead
    <3>3. QED
      BY <1>2, <3>1, <3>2 DEF Runners
  <2>7. QED
    BY <2>2, <2>3, <2>4, <2>5, <2>6
<1>6. TypeOK'
  BY <1>1, <1>2, <1>3, <1>4, <1>5 DEF TypeOK
<1>7. CertMoves
  BY <1>1, CertUnmoved
<1>8. runner'.read = runner.read \/ ReadKept(runner'.read, wall', cert')
  <2>1. CASE runner'.read = NoRead
    BY <1>3, <2>1, NoReadKept
  <2>2. CASE runner'.read = Read(runner.soak) /\ wall' = wall
    BY <1>1, <1>2, <2>2, ReadTypes DEF ReadKept
  <2>3. QED
    BY <1>5, <2>1, <2>2
<1>9. QED
  BY <1>1, <1>3, <1>6, <1>7, <1>8, EvidenceKept

\* A step that writes one row.
LEMMA RowWritten ==
  ASSUME TypeOK, NEW i \in DOMAIN soaks, NEW row \in Soaks,
         soaks' = [soaks EXCEPT ![i] = row], row.start = soaks[i].start, row.ended
  PROVE  /\ soaks' \in Seq(Soaks) /\ DOMAIN soaks' = DOMAIN soaks /\ soaks'[i] = row
         /\ \A j \in DOMAIN soaks : /\ soaks'[j].start = soaks[j].start
                                    /\ soaks[j].ended => soaks'[j].ended
<1>1. soaks \in Seq(Soaks)
  BY DEF TypeOK
<1>2. /\ soaks' \in Seq(Soaks) /\ DOMAIN soaks' = DOMAIN soaks
      /\ \A j \in DOMAIN soaks : soaks'[j] = IF j = i THEN row ELSE soaks[j]
  BY <1>1, SoakReplaced
<1>3. QED
  BY <1>2

\* The second half of the last transaction, full soak or short.
LEMMA Closes ==
  ASSUME TypeOK, NEW i \in DOMAIN soaks, NEW r \in Reads, NEW u \in {0, 1},
         ReadKept(r, wall, cert), CompleteSoak(i, r, u) \/ CloseShortSoak(i, r, u),
         wall' = wall, evidence' = evidence
  PROVE  /\ soaks' \in Seq(Soaks) /\ DOMAIN soaks' = DOMAIN soaks
         /\ \A j \in DOMAIN soaks : /\ soaks'[j].start = soaks[j].start
                                    /\ soaks[j].ended => soaks'[j].ended
         /\ cert' \in Certs /\ CertMoves
         /\ cert'.soak => \/ cert.soak
                          \/ soaks'[i].ended /\ wall' - soaks'[i].start >= Required
<1>1. wall \in Nat /\ soaks[i] \in Soaks /\ soaks[i].start \in Nat /\ r.at \in Nat
      /\ Required \in Nat /\ r.at <= wall
  BY RowOf, Constants DEF TypeOK, Reads, ReadKept
<1>2. PICK p \in BOOLEAN :
         /\ soaks' = [soaks EXCEPT ![i] = Closed(soaks[i], r, p)]
         /\ cert' = cert \/ /\ Passes(soaks[i], r, u)
                            /\ cert' = [cert EXCEPT !.soak = TRUE,
                                                     !.valid = Updated(r.ready, r.valid, @)]
  <2>1. CASE CompleteSoak(i, r, u)
    <3>1. Passes(soaks[i], r, u) \in BOOLEAN
      BY DEF Passes
    <3>2. QED
      BY <2>1, <3>1 DEF CompleteSoak
  <2>2. CASE CloseShortSoak(i, r, u)
    <3>1. (u = 0 /\ ~r.paused) \in BOOLEAN
      OBVIOUS
    <3>2. QED
      BY <2>2, <3>1 DEF CloseShortSoak
  <2>3. QED
    BY <2>1, <2>2
<1>3. PICK row : row = Closed(soaks[i], r, p)
  OBVIOUS
<1>4. row \in Soaks /\ row.ended /\ row.start = soaks[i].start
  BY <1>1, <1>3, ClosedRow
<1>5. /\ soaks' \in Seq(Soaks) /\ DOMAIN soaks' = DOMAIN soaks /\ soaks'[i] = row
      /\ \A j \in DOMAIN soaks : /\ soaks'[j].start = soaks[j].start
                                 /\ soaks[j].ended => soaks'[j].ended
  BY <1>2, <1>3, <1>4, RowWritten
<1>6. CASE cert' = cert
  BY <1>5, <1>6, CertFields, CertUnmoved
<1>7. CASE /\ Passes(soaks[i], r, u)
           /\ cert' = [cert EXCEPT !.soak = TRUE, !.valid = Updated(r.ready, r.valid, @)]
  <2>1. /\ cert' \in Certs /\ cert'.soak
        /\ cert'.contract = cert.contract /\ cert'.fault = cert.fault
        /\ cert'.lifeAt = cert.lifeAt
        /\ cert'.valid => cert.valid \/ r.ready
    BY <1>7, CertFields, PassedCert
  <2>2. r.ready => cert.contract /\ cert.fault /\ cert.lifeAt
    BY DEF ReadKept
  <2>3. CertMoves
    BY <2>1, <2>2, CertFields DEF CertMoves
  <2>4. soaks'[i].ended /\ wall' - soaks'[i].start >= Required
    BY <1>1, <1>4, <1>5, <1>7 DEF Passes
  <2>5. QED
    BY <1>5, <2>1, <2>3, <2>4
<1>8. QED
  BY <1>2, <1>6, <1>7

LEMMA SoakFinishStep ==
  ASSUME TypeOK, SoakEvidence, SoakFinish
  PROVE  Kept
<1>1. PICK i, r, u : i = runner.soak /\ r = runner.read /\ u = runner.unres
  OBVIOUS
<1>2. i \in DOMAIN soaks /\ r \in Reads /\ u \in {0, 1} /\ wall \in Nat
      /\ ReadKept(r, wall, cert)
  BY <1>1 DEF TypeOK, Runners, SoakFinish, SoakEvidence
<1>3. /\ CompleteSoak(i, r, u) \/ CloseShortSoak(i, r, u)
      /\ wall' = wall /\ runner' = NoRunner
      /\ UNCHANGED <<installed, evidence, script, accounts, creds, unclear, exposed, openBreak>>
  BY <1>1 DEF SoakFinish, accountVars
<1>4. NoRunner \in Runners /\ NoRunner.pc = "off" /\ NoRunner.read = NoRead
  BY NoReadKept DEF NoRunner, Runners
<1>5. /\ soaks' \in Seq(Soaks) /\ DOMAIN soaks' = DOMAIN soaks
      /\ \A j \in DOMAIN soaks : /\ soaks'[j].start = soaks[j].start
                                 /\ soaks[j].ended => soaks'[j].ended
      /\ cert' \in Certs /\ CertMoves
      /\ cert'.soak => \/ cert.soak
                       \/ soaks'[i].ended /\ wall' - soaks'[i].start >= Required
  BY <1>2, <1>3, Closes
<1>6. TypeOK'
  BY <1>3, <1>4, <1>5 DEF TypeOK
<1>7. ReadKept(runner'.read, wall', cert')
  BY <1>2, <1>3, <1>4, NoReadKept
<1>8. QED
  BY <1>2, <1>3, <1>5, <1>6, <1>7, EvidenceKept

LEMMA SoakAbortStep ==
  ASSUME TypeOK, SoakEvidence, NEW i \in DOMAIN soaks, SoakAbort(i)
  PROVE  Kept
<1> DEFINE row == [start |-> soaks[i].start, ended |-> TRUE, paused |-> TRUE,
                   passed |-> FALSE]
<1>1. soaks' = [soaks EXCEPT ![i] = row] /\ wall' = wall
      /\ UNCHANGED <<cert, evidence, installed, runner, script, accounts, creds,
                     unclear, exposed, openBreak>>
  BY DEF SoakAbort, CertFrame, accountVars
<1>2. wall \in Nat /\ soaks[i].start \in Nat
  BY RowOf DEF TypeOK
<1>3. row \in Soaks /\ row.start = soaks[i].start /\ row.ended
  BY <1>2 DEF Soaks
<1> HIDE DEF row
<1>4. /\ soaks' \in Seq(Soaks) /\ DOMAIN soaks' = DOMAIN soaks /\ soaks'[i] = row
      /\ \A j \in DOMAIN soaks : /\ soaks'[j].start = soaks[j].start
                                 /\ soaks[j].ended => soaks'[j].ended
  BY <1>1, <1>3, RowWritten
<1>5. TypeOK'
  BY <1>1, <1>4 DEF TypeOK
<1>6. CertMoves
  BY <1>1, CertUnmoved
<1>7. QED
  BY <1>1, <1>2, <1>4, <1>5, <1>6, EvidenceKept

LEMMA SoakStep ==
  ASSUME TypeOK, SoakEvidence, Soak
  PROVE  Kept
BY SoakStartStep, RunnerStep, SoakFinishStep, SoakAbortStep DEF Soak

(***************************************************************************)
(* The script                                                              *)
(***************************************************************************)

\* The steps of the script that write no row of a soak.
LEMMA ScriptWatches ==
  ASSUME TypeOK, SoakEvidence,
         (\E i \in DOMAIN soaks : ScriptStart(i)) \/ ScriptRecon \/ ScriptRead \/ ScriptDies
  PROVE  Kept
<1>1. UNCHANGED <<cert, soaks, wall, installed, evidence, runner, accounts, creds, unclear,
                  exposed>>
  BY DEF ScriptStart, ScriptRecon, ScriptRead, ScriptDies, ScriptFrame, accountVars
<1>2. script \in Scripts /\ wall \in Nat /\ openBreak' \in BOOLEAN
      /\ (script.pc # "off" => script.soak \in DOMAIN soaks)
  BY DEF ScriptStart, ScriptRecon, ScriptRead, ScriptDies, TypeOK
<1>3. /\ script' \in Scripts
      /\ script'.pc # "off" => script'.soak \in DOMAIN soaks
      /\ script'.read = script.read \/ ReadKept(script'.read, wall, cert)
  <2>1. NoScript \in Scripts /\ NoScript.pc = "off" /\ ReadKept(NoScript.read, wall, cert)
    BY <1>2, NoReadKept DEF NoScript, Scripts
  <2>2. ASSUME NEW i \in DOMAIN soaks, ScriptStart(i)
        PROVE  /\ script' \in Scripts /\ script'.soak = i
               /\ ReadKept(script'.read, wall, cert)
    <3>1. i \in Nat
      BY DEF TypeOK
    <3>2. script' = [pc |-> "recon", soak |-> i, unres |-> 0, read |-> NoRead]
      BY <2>2 DEF ScriptStart
    <3>3. QED
      BY <1>2, <3>1, <3>2, NoReadKept DEF Scripts
  <2>3. CASE ScriptRecon
    <3>1. script' = NoScript \/ script' = [script EXCEPT !.pc = "complete"]
      BY <2>3 DEF ScriptRecon
    <3>2. script.pc # "off"
      BY <2>3 DEF ScriptRecon
    <3>3. QED
      BY <1>2, <2>1, <3>1, <3>2 DEF Scripts
  <2>4. CASE ScriptRead
    <3>1. PICK i : i = script.soak /\ i \in DOMAIN soaks
      BY <1>2, <2>4 DEF ScriptRead
    <3>2. PICK r : r = Read(i)
      OBVIOUS
    <3>3. script' = [script EXCEPT !.pc = "write", !.read = r]
      BY <2>4, <3>1, <3>2 DEF ScriptRead
    <3>4. r \in Reads /\ ReadKept(r, wall, cert)
      BY <1>2, <3>1, <3>2, ReadTypes DEF ReadKept
    <3>5. QED
      BY <1>2, <3>1, <3>3, <3>4 DEF Scripts
  <2>5. CASE ScriptDies
    BY <2>1, <2>5 DEF ScriptDies
  <2>6. QED
    BY <2>2, <2>3, <2>4, <2>5
<1>4. TypeOK'
  BY <1>1, <1>2, <1>3 DEF TypeOK
<1>5. CertMoves
  BY <1>1, CertUnmoved
<1>6. QED
  BY <1>1, <1>2, <1>3, <1>4, <1>5, EvidenceKept

LEMMA ScriptCompleteStep ==
  ASSUME TypeOK, SoakEvidence, ScriptComplete
  PROVE  Kept
<1>1. PICK i, r, u : i = script.soak /\ r = script.read /\ u = script.unres
  OBVIOUS
<1>2. i \in DOMAIN soaks /\ r \in Reads /\ u \in {0, 1} /\ wall \in Nat
      /\ ReadKept(r, wall, cert)
  BY <1>1 DEF TypeOK, Scripts, ScriptComplete, SoakEvidence
<1>3. script' = NoScript /\ CompleteSoak(i, r, u)
      /\ UNCHANGED <<wall, installed, evidence, runner, accounts, creds, unclear, exposed,
                     openBreak>>
  BY <1>1 DEF ScriptComplete, ScriptFrame, accountVars
<1>4. NoScript \in Scripts /\ NoScript.pc = "off" /\ NoScript.read = NoRead
  BY NoReadKept DEF NoScript, Scripts
<1>5. /\ soaks' \in Seq(Soaks) /\ DOMAIN soaks' = DOMAIN soaks
      /\ \A j \in DOMAIN soaks : /\ soaks'[j].start = soaks[j].start
                                 /\ soaks[j].ended => soaks'[j].ended
      /\ cert' \in Certs /\ CertMoves
      /\ cert'.soak => \/ cert.soak
                       \/ soaks'[i].ended /\ wall' - soaks'[i].start >= Required
  BY <1>2, <1>3, Closes
<1>6. TypeOK'
  BY <1>3, <1>4, <1>5 DEF TypeOK
<1>7. ReadKept(script'.read, wall', cert')
  BY <1>2, <1>3, <1>4, NoReadKept
<1>8. QED
  BY <1>2, <1>3, <1>5, <1>6, <1>7, EvidenceKept

LEMMA ScriptStep ==
  ASSUME TypeOK, SoakEvidence, Script
  PROVE  Kept
BY ScriptWatches, ScriptCompleteStep DEF Script

(***************************************************************************)
(* The accounts                                                            *)
(***************************************************************************)

\* What every step does to the table: two accounts are never active, nobody is
\* marked without a valid certificate.
AccountMoves ==
  /\ accounts' \in Tables
  /\ OneActive => OneActive'
  /\ \A a \in Rows(accounts') :
        Marked(accounts'[a]) =>
          cert.valid \/ (a \in Rows(accounts) /\ Marked(accounts[a]))

LEMMA AccountsUnmoved ==
  ASSUME TypeOK, UNCHANGED accounts
  PROVE  AccountMoves
BY DEF TypeOK, Tables, AccountMoves, OneActive, Active, Rows

\* A switch, or the table as it was before it when the switch is refused.
LEMMA Switched ==
  ASSUME TypeOK, NEW t \in Tables, NEW x \in Ids, Active(t) = Active(accounts),
         \A a \in Rows(t) :
            Marked(t[a]) => cert.valid \/ (a \in Rows(accounts) /\ Marked(accounts[a])),
         \/ Quiet(t, x) /\ accounts' = Activated(t, x)
         \/ accounts' = t
  PROVE  AccountMoves
<1>1. CASE accounts' = t
  BY <1>1 DEF AccountMoves, OneActive
<1>2. CASE Quiet(t, x) /\ accounts' = Activated(t, x)
  <2>1. /\ accounts' \in Tables /\ Active(accounts') \subseteq {x}
        /\ Rows(accounts') = Rows(t)
        /\ \A a \in Rows(t) : Marked(accounts'[a]) <=> Marked(t[a])
    BY <1>2, ActivatedTable
  <2>2. OneActive'
    BY <2>1 DEF OneActive
  <2>3. QED
    BY <2>1, <2>2 DEF AccountMoves
<1>3. QED
  BY <1>1, <1>2

\* The table enable_demo leaves to the switch.
LEMMA EnabledTable ==
  ASSUME NEW t \in Tables, NEW a \in Ids
  PROVE  /\ Enabled(t, a) \in Tables /\ Active(Enabled(t, a)) = Active(t)
         /\ \A b \in Rows(Enabled(t, a)) \ {a} : b \in Rows(t) /\ Enabled(t, a)[b] = t[b]
<1> DEFINE on == t[a] # None /\ t[a].active
           row == [mode |-> "DEMO", status |-> "READY", elig |-> "DEMO_CERTIFIED",
                   active |-> on]
<1>1. Enabled(t, a) = [t EXCEPT ![a] = row]
  BY DEF Enabled
<1>2. on \in BOOLEAN
  OBVIOUS
<1> HIDE DEF on
<1>3. row \in Accounts /\ row.active = on
  BY <1>2 DEF Accounts
<1> HIDE DEF row
<1>4. on <=> (t[a] # None /\ t[a].active)
  BY DEF on
<1>5. row.active <=> a \in Active(t)
  BY <1>3, <1>4 DEF Active, Rows
<1>6. PICK u : u = Enabled(t, a)
  OBVIOUS
<1>7. u \in Tables /\ u[a] = row /\ \A b \in Ids \ {a} : u[b] = t[b]
  BY <1>1, <1>3, <1>6 DEF Tables
<1>8. Active(u) = Active(t) /\ Rows(u) = Rows(t) \union {a}
  BY <1>3, <1>5, <1>7, RowReplaced
<1>9. QED
  BY <1>6, <1>7, <1>8 DEF Rows

LEMMA EnableMoves ==
  ASSUME TypeOK, NEW a \in Ids, HeadlessEnable(a) \/ HubEnable(a)
  PROVE  AccountMoves
<1> DEFINE t == Enabled(accounts, a)
<1>1. accounts \in Tables
  BY DEF TypeOK, Tables
<1>2. t \in Tables /\ Active(t) = Active(accounts)
  BY <1>1, EnabledTable
<1>3. cert.valid
  BY DEF HeadlessEnable, HubEnable, MayEnable
<1>4. \/ Quiet(t, a) /\ accounts' = Activated(t, a)
      \/ accounts' = t
  BY DEF HeadlessEnable, HubEnable
<1> HIDE DEF t
<1>5. QED
  BY <1>2, <1>3, <1>4, Switched

LEMMA SwitchDemoMoves ==
  ASSUME TypeOK, SwitchDemo
  PROVE  AccountMoves
<1>1. PICK a \in Ids : Quiet(accounts, a) /\ accounts' = Activated(accounts, a)
  BY DEF SwitchDemo, OfMode, Rows
<1>2. accounts \in Tables
  BY DEF TypeOK, Tables
<1>3. QED
  BY <1>1, <1>2, Switched

LEMMA SwitchPaperMoves ==
  ASSUME TypeOK, SwitchPaper
  PROVE  AccountMoves
<1> DEFINE row == [mode |-> "PAPER", status |-> "READY", elig |-> "PAPER", active |-> FALSE]
<1>1. PICK t : /\ t = IF OfMode(accounts, "PAPER") = {}
                      THEN [accounts EXCEPT ![Paper] = row] ELSE accounts
               /\ OfMode(accounts, "PAPER") # {} \/ accounts[Paper] = None
               /\ \E a \in OfMode(t, "PAPER") :
                     accounts' = IF Quiet(t, a) THEN Activated(t, a) ELSE t
  BY DEF SwitchPaper
<1>2. accounts \in Tables /\ Paper \in Ids
  BY Constants DEF TypeOK, Tables
<1>3. row \in Accounts /\ row.active = FALSE /\ ~Marked(row)
  BY DEF Accounts, Marked
<1>4. /\ t \in Tables /\ Active(t) = Active(accounts)
      /\ \A b \in Rows(t) :
            Marked(t[b]) => b \in Rows(accounts) /\ Marked(accounts[b])
  <2>1. CASE OfMode(accounts, "PAPER") # {}
    BY <1>1, <1>2, <2>1
  <2>2. CASE OfMode(accounts, "PAPER") = {}
    <3>1. t = [accounts EXCEPT ![Paper] = row] /\ accounts[Paper] = None
      BY <1>1, <2>2
    <3> HIDE DEF row
    <3>2. row.active <=> Paper \in Active(accounts)
      BY <1>3, <3>1 DEF Active, Rows
    <3>3. t \in Tables /\ t[Paper] = row /\ \A b \in Ids \ {Paper} : t[b] = accounts[b]
      BY <1>2, <1>3, <3>1 DEF Tables
    <3>4. Active(t) = Active(accounts) /\ Rows(t) = Rows(accounts) \union {Paper}
      BY <1>2, <1>3, <3>2, <3>3, RowReplaced
    <3>5. QED
      BY <1>3, <3>3, <3>4 DEF Rows
  <2>3. QED
    BY <2>1, <2>2
<1>5. PICK a \in Ids : accounts' = IF Quiet(t, a) THEN Activated(t, a) ELSE t
  BY <1>1 DEF OfMode, Rows
<1>6. QED
  BY <1>4, <1>5, Switched

LEMMA DisableMoves ==
  ASSUME TypeOK, DisableDemo
  PROVE  AccountMoves
<1> DEFINE off(a) == [mode |-> "DEMO", status |-> "SAFE_LOCK", elig |-> accounts[a].elig,
                      active |-> FALSE]
<1>1. accounts \in Tables
  BY DEF TypeOK, Tables
<1>2. accounts' = [a \in Ids |-> IF a \in OfMode(accounts, "DEMO") THEN off(a)
                                 ELSE accounts[a]]
  BY DEF DisableDemo
<1>3. ASSUME NEW a \in OfMode(accounts, "DEMO")
      PROVE  /\ a \in Ids /\ accounts[a] # None /\ off(a) \in Accounts
             /\ off(a).active = FALSE /\ (Marked(off(a)) => Marked(accounts[a]))
  <2>1. a \in Ids /\ accounts[a] # None /\ accounts[a] \in Accounts
    BY <1>1, <1>3 DEF OfMode, Rows, Tables
  <2>2. QED
    BY <2>1 DEF Accounts, Marked
<1> HIDE DEF off
<1>4. \A a \in Ids : accounts'[a] = IF a \in OfMode(accounts, "DEMO") THEN off(a)
                                     ELSE accounts[a]
  BY <1>2
<1>5. accounts' \in Tables
  BY <1>1, <1>2, <1>3 DEF Tables
<1>6. Rows(accounts') \subseteq Rows(accounts)
  BY <1>3, <1>4 DEF Rows
<1>7. Active(accounts') \subseteq Active(accounts)
  BY <1>3, <1>4, <1>6 DEF Active, Rows
<1>8. \A a \in Rows(accounts') : Marked(accounts'[a]) => Marked(accounts[a])
  BY <1>3, <1>4 DEF Rows
<1>9. QED
  BY <1>5, <1>6, <1>7, <1>8 DEF AccountMoves, OneActive

LEMMA StoreCredsMoves ==
  ASSUME TypeOK, NEW a \in Ids, StoreCreds(a)
  PROVE  AccountMoves
<1> DEFINE row == [mode |-> "DEMO", status |-> "NEW", elig |-> "INELIGIBLE", active |-> FALSE]
<1>1. CASE UNCHANGED accounts
  BY <1>1, AccountsUnmoved
<1>2. CASE accounts[a] = None /\ accounts' = [accounts EXCEPT ![a] = row]
  <2>1. row \in Accounts /\ row.active = FALSE /\ ~Marked(row)
    BY DEF Accounts, Marked
  <2> HIDE DEF row
  <2>2. accounts \in Tables
    BY DEF TypeOK, Tables
  <2>3. row.active <=> a \in Active(accounts)
    BY <1>2, <2>1 DEF Active, Rows
  <2>4. /\ accounts' \in Tables /\ accounts'[a] = row
        /\ \A b \in Ids \ {a} : accounts'[b] = accounts[b]
    BY <1>2, <2>1, <2>2 DEF Tables
  <2>5. Active(accounts') = Active(accounts) /\ Rows(accounts') = Rows(accounts) \union {a}
    BY <2>1, <2>2, <2>3, <2>4, RowReplaced
  <2>6. QED
    BY <2>1, <2>4, <2>5 DEF AccountMoves, OneActive, Rows
<1>3. QED
  BY <1>1, <1>2 DEF StoreCreds

LEMMA HubStep ==
  ASSUME TypeOK, SoakEvidence, Hub
  PROVE  Kept /\ AccountMoves
<1>1. AccountMoves
  BY EnableMoves, SwitchDemoMoves, SwitchPaperMoves, DisableMoves, StoreCredsMoves DEF Hub
<1>2. UNCHANGED <<wall, installed, evidence, soaks, runner, script, unclear, exposed, openBreak>>
  BY DEF Hub, HeadlessEnable, HubEnable, StoreCreds, DisableDemo, SwitchPaper, SwitchDemo,
         AccountFrame
<1>3. cert' \in {cert, [cert EXCEPT !.base = installed]}
  BY DEF Hub, HeadlessEnable, HubEnable, StoreCreds, DisableDemo, SwitchPaper, SwitchDemo,
         Baseline
<1>4. creds' \subseteq Ids
  BY DEF TypeOK, Hub, HeadlessEnable, HubEnable, StoreCreds, DisableDemo, SwitchPaper,
         SwitchDemo
<1>5. cert' \in Certs /\ cert'.soak = cert.soak /\ CertMoves
  <2>1. installed \in Versions
    BY DEF TypeOK
  <2>2. cert' \in Certs
    BY <1>3, <2>1, CertFields DEF Certs
  <2>3. /\ cert'.soak = cert.soak /\ cert'.contract = cert.contract
        /\ cert'.fault = cert.fault /\ cert'.lifeAt = cert.lifeAt
        /\ cert'.valid = cert.valid
    BY <1>3, CertFields DEF Certs
  <2>4. QED
    BY <1>2, <2>2, <2>3, CertFields DEF CertMoves
<1>6. TypeOK'
  BY <1>1, <1>2, <1>4, <1>5 DEF TypeOK, AccountMoves, Tables
<1>7. Kept
  BY <1>2, <1>5, <1>6, SoaksUntouched DEF TypeOK
<1>8. QED
  BY <1>1, <1>7

(***************************************************************************)
(* The inductive invariant                                                 *)
(***************************************************************************)

\* Valid means that all gates are set; the flag of the third rests on rows.
GatesPassed ==
  /\ cert.valid => cert.contract /\ cert.fault /\ cert.lifeAt /\ cert.soak
  /\ cert.lifeAt => \E a \in Ids : evidence[a] >= Gate

IInv == TypeOK /\ GatesPassed /\ SoakEvidence /\ OneActive /\ CertifiedOnEvidence

LEMMA NextKeeps ==
  ASSUME TypeOK, SoakEvidence, [Next]_vars
  PROVE  Kept /\ AccountMoves
<1>1. CASE UNCHANGED vars
  <2>1. UNCHANGED <<wall, installed, cert, evidence, soaks, runner, script, accounts, creds,
                    unclear, exposed, openBreak>>
    BY <1>1 DEF vars, certVars, accountVars
  <2>2. TypeOK'
    BY <2>1 DEF TypeOK
  <2>3. QED
    BY <2>1, <2>2, CertUnmoved, AccountsUnmoved, SoaksUntouched DEF TypeOK
<1>2. CASE Environment
  <2>1. UNCHANGED <<cert, soaks, runner, script, accounts>> /\ wall' >= wall
    BY <1>2 DEF Environment, Upgrade, Tick, IntentsChange, certVars, accountVars, TypeOK
  <2>2. QED
    BY <1>2, <2>1, EnvironmentTypes, AccountsUnmoved, SoaksUntouched
<1>3. CASE Evidence
  <2>1. UNCHANGED accounts
    BY <1>3 DEF Evidence, CertMark, CertCheckDrift, RoundTrip, RoundTripFails, CertFrame,
                accountVars
  <2>2. QED
    BY <1>3, <2>1, EvidenceTypes, AccountsUnmoved, SoaksUntouched DEF TypeOK
<1>4. CASE Soak
  <2>1. UNCHANGED accounts
    BY <1>4 DEF Soak, SoakStart, SoakCheck, SoakBeat, SoakCount, SoakRead, SoakFinish, SoakDies,
                SoakAbort, CertFrame, accountVars
  <2>2. QED
    BY <1>4, <2>1, SoakStep, AccountsUnmoved
<1>5. CASE Script
  <2>1. UNCHANGED accounts
    BY <1>5 DEF Script, ScriptStart, ScriptRecon, ScriptRead, ScriptComplete, ScriptDies, ScriptFrame,
                accountVars
  <2>2. QED
    BY <1>5, <2>1, ScriptStep, AccountsUnmoved
<1>6. CASE Hub
  BY <1>6, HubStep
<1>7. QED
  BY <1>1, <1>2, <1>3, <1>4, <1>5, <1>6 DEF Next

LEMMA InitInvariant == Init => IInv
<1> SUFFICES ASSUME Init
             PROVE  IInv
  OBVIOUS
<1>1. NewCert \in Certs /\ ~NewCert.valid /\ ~NewCert.lifeAt /\ ~NewCert.soak
  BY DEF NewCert, Certs
<1>2. NoRunner \in Runners /\ NoRunner.pc = "off" /\ ReadKept(NoRunner.read, 0, NewCert)
  BY NoReadKept DEF NoRunner, Runners
<1>3. NoScript \in Scripts /\ NoScript.pc = "off" /\ ReadKept(NoScript.read, 0, NewCert)
  BY NoReadKept DEF NoScript, Scripts
<1>4. soaks \in Seq(Soaks) /\ DOMAIN soaks = {}
  BY DEF Init
<1>5. \A a \in Ids : accounts[a] = None
  BY DEF Init
<1>6. TypeOK
  BY <1>1, <1>2, <1>3, <1>4 DEF Init, TypeOK
<1>7. GatesPassed
  BY <1>1 DEF Init, GatesPassed
<1>8. OneActive /\ CertifiedOnEvidence
  BY <1>5 DEF OneActive, CertifiedOnEvidence, Active, Rows
<1>9. SoakEvidence
  BY <1>1, <1>2, <1>3 DEF Init, SoakEvidence
<1>10. QED
  BY <1>6, <1>7, <1>8, <1>9 DEF IInv

LEMMA NextInvariant ==
  ASSUME IInv, [Next]_vars
  PROVE  IInv'
<1>1. Kept /\ AccountMoves /\ TypeOK
  BY NextKeeps DEF IInv
<1>2. CertMoves /\ TypeOK'
  BY <1>1 DEF Kept
<1>3. GatesPassed'
  <2>1. cert'.valid => cert'.contract /\ cert'.fault /\ cert'.lifeAt /\ cert'.soak
    BY <1>2 DEF CertMoves, IInv, GatesPassed
  <2>2. cert'.lifeAt => \E a \in Ids : evidence'[a] >= Gate
    <3>1. CASE cert.lifeAt
      <4>1. PICK a \in Ids : evidence[a] >= Gate
        BY <3>1 DEF IInv, GatesPassed
      <4>2. evidence'[a] >= evidence[a] /\ evidence[a] \in Nat /\ evidence'[a] \in Nat
            /\ Gate \in Nat
        BY <1>1, <1>2, Constants DEF CertMoves, TypeOK
      <4>3. QED
        BY <4>1, <4>2
    <3>2. CASE ~cert.lifeAt
      BY <1>2, <3>2 DEF CertMoves
    <3>3. QED
      BY <3>1, <3>2
  <2>3. QED
    BY <2>1, <2>2 DEF GatesPassed
<1>4. CertifiedOnEvidence'
  <2> SUFFICES ASSUME NEW a \in Rows(accounts'), Marked(accounts'[a])
               PROVE  cert'.contract /\ cert'.fault /\ cert'.lifeAt /\ cert'.soak
    BY DEF CertifiedOnEvidence, Marked
  <2>1. cert.valid \/ (a \in Rows(accounts) /\ Marked(accounts[a]))
    BY <1>1 DEF AccountMoves
  <2>2. cert.contract /\ cert.fault /\ cert.lifeAt /\ cert.soak
    BY <2>1 DEF IInv, GatesPassed, CertifiedOnEvidence, Marked
  <2>3. QED
    BY <1>2, <2>2 DEF CertMoves
<1>5. QED
  BY <1>1, <1>2, <1>3, <1>4 DEF IInv, Kept, AccountMoves

\* The inductive invariant holds in every behaviour.
THEOREM InvariantHolds == Spec => []IInv
<1>1. Init => IInv
  BY InitInvariant
<1>2. IInv /\ [Next]_vars => IInv'
  BY NextInvariant
<1>3. QED
  BY <1>1, <1>2, PTL DEF Spec

\* Variables keep their types (one row of the certificate, accounts and soaks
\* as the columns allow) for any number of soaks, round trips and upgrades.
THEOREM CertificationTypes == Spec => []TypeOK
<1>1. IInv => TypeOK
  BY DEF IInv
<1>2. QED
  BY <1>1, InvariantHolds, PTL

\* activate_account leaves at most one row active, for any set of accounts.
THEOREM AtMostOneActive == Spec => []OneActive
<1>1. IInv => OneActive
  BY DEF IInv
<1>2. QED
  BY <1>1, InvariantHolds, PTL

\* Nobody is marked DEMO_CERTIFIED before all four gates were passed once,
\* through every command that writes an account.
THEOREM MarkedOnEvidence == Spec => []CertifiedOnEvidence
<1>1. IInv => CertifiedOnEvidence
  BY DEF IInv
<1>2. QED
  BY <1>1, InvariantHolds, PTL

\* A valid certificate rests on the rows of lifecycle_evidence and soak_runs:
\* both suites, enough round trips of one account and a soak that is over and
\* began as long ago as one has to last; whoever completes a soak, whatever
\* complete read too early, with or without the lock.
THEOREM ValidRestsOnRows == Spec => []ValidOnEvidence
<1>1. IInv => ValidOnEvidence
  BY DEF IInv, GatesPassed, SoakEvidence, ValidOnEvidence
<1>2. QED
  BY <1>1, InvariantHolds, PTL

=============================================================================
