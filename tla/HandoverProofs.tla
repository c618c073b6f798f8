---------------------------- MODULE HandoverProofs ----------------------------
(***************************************************************************)
(* Proofs about Handover, for any candidates, rows, office lists, starting *)
(* month and number of changes.                                            *)
(***************************************************************************)
EXTENDS Handover, TLAPS

-----------------------------------------------------------------------------
(***************************************************************************)
(* The rules.                                                              *)
(***************************************************************************)

\* _first_day_of_nth_month_after(now, 3) is the first of the month reached by
\* turning the page three times, in every month of every year.
THEOREM ThirdMonthAfter ==
  ASSUME NEW m \in Months
  PROVE  LET third == MonthAfter(MonthAfter(MonthAfter(m)))
         IN FirstDayOfNthMonthAfter(m, StartDateOffsetMonths)
              = [year |-> third.year, month |-> third.month, day |-> 1]
<1>0. /\ m.year \in Nat /\ m.month \in 1..12
      /\ m = [year |-> m.year, month |-> m.month]
  BY DEF Months
<1>1. FirstDayOfNthMonthAfter(m, StartDateOffsetMonths)
        = [year |-> m.year + (m.month + 2) \div 12, month |-> ((m.month + 2) % 12) + 1, day |-> 1]
  <2>1. m.month - 1 + 3 = m.month + 2
    BY <1>0
  <2> QED
    BY <2>1 DEF FirstDayOfNthMonthAfter, StartDateOffsetMonths
<1>2. CASE m.month \in 1..9
  <2>1. MonthAfter(MonthAfter(MonthAfter(m))) = [year |-> m.year, month |-> m.month + 3]
    BY <1>0, <1>2 DEF MonthAfter
  <2>2. (m.month + 2) \div 12 = 0 /\ (m.month + 2) % 12 = m.month + 2
    BY <1>2
  <2> QED
    BY <1>0, <1>1, <2>1, <2>2
<1>3. CASE m.month = 10
  BY <1>0, <1>1, <1>3 DEF MonthAfter
<1>4. CASE m.month = 11
  BY <1>0, <1>1, <1>4 DEF MonthAfter
<1>5. CASE m.month = 12
  BY <1>0, <1>1, <1>5 DEF MonthAfter
<1> QED
  BY <1>0, <1>2, <1>3, <1>4, <1>5

LEMMA NextMonthIsMonth ==
  ASSUME NEW m \in Months
  PROVE  MonthAfter(m) \in Months
BY DEF Months, MonthAfter

\* A start date is never missing.
LEMMA AlwaysAStartDate ==
  ASSUME NEW start, NEW now
  PROVE  EffectiveStartDate(start, now) # NoDate
<1>1. FirstDayOfNthMonthAfter(now, StartDateOffsetMonths).day = 1
  BY DEF FirstDayOfNthMonthAfter
<1>2. NoDate.day = 0
  BY DEF NoDate
<1> QED
  BY <1>1, <1>2 DEF EffectiveStartDate

\* Nor is a population.
LEMMA AlwaysAPopulation ==
  ASSUME NEW dealer, NEW vip
  PROVE  Given(PopulationApiValue(Population(dealer, vip)))
<1>1. Population(dealer, vip) \in ValidPopulationValues
  BY DEF Population, ValidPopulationValues
<1>2. \A word \in ValidPopulationValues : Plain(word).word # ""
  BY DEF ValidPopulationValues, Plain
<1>3. Blank.word = ""
  BY DEF Blank, Plain
<1> QED
  BY <1>1, <1>2, <1>3 DEF PopulationApiValue, Given

\* The id of a workplace's office is given exactly when the list has one.
LEMMA OfficeId ==
  ASSUME NEW workplace, NEW refdata
  PROVE  Given(ResolveOffice(workplace, refdata).id)
           <=> /\ IsMapped(workplace)
               /\ OfficeName(workplace) \in DOMAIN refdata
               /\ Given(refdata[OfficeName(workplace)])
BY DEF ResolveOffice, NoOffice, IsListed, Given

LEMMA OfficeFound ==
  ASSUME NEW workplace, NEW refdata, Given(ResolveOffice(workplace, refdata).id)
  PROVE  ResolveOffice(workplace, refdata).found
BY DEF ResolveOffice, NoOffice, Given

LEMMA NothingListed ==
  ASSUME NEW workplace
  PROVE  ~Given(ResolveOffice(workplace, <<>>).id)
<1>1. DOMAIN <<>> = {}
  OBVIOUS
<1> QED
  BY <1>1 DEF ResolveOffice, NoOffice, IsListed, Given

-----------------------------------------------------------------------------
(***************************************************************************)
(* The inductive invariant.                                                *)
(***************************************************************************)
RowShape(row) == row = [field \in RowFields |-> row[field]]

Shapes ==
  /\ jobvite = [e \in Candidates |-> jobvite[e]]
  /\ \A e \in Candidates : RowShape(jobvite[e])
  /\ cand = [e \in Candidates |-> [status |-> cand[e].status, row |-> cand[e].row]]
  /\ \A e \in Candidates : RowShape(cand[e].row)
  /\ today \in Months
  /\ evidence = [workbook |-> evidence.workbook, route |-> evidence.route,
                 dryRun |-> evidence.dryRun, green |-> evidence.green]
  /\ evidence.green \in BOOLEAN
  /\ run = [phase |-> run.phase, route |-> run.route, taken |-> run.taken,
            refdata |-> run.refdata, now |-> run.now, waiting |-> run.waiting,
            results |-> run.results]
  /\ run.now \in Months
  /\ run.waiting \subseteq DOMAIN run.taken
  /\ \A e \in DOMAIN run.taken : RowShape(run.taken[e])

\* A result is what the attempt made of the candidate the run had taken.
ResultsAreAttempts ==
  /\ run.phase # "posting" => run.results = {}
  /\ \A result \in run.results :
       /\ result.eid \in DOMAIN run.taken
       /\ \E answer \in Answers : result = Attempt(result.eid, answer)

\* Until a run has read its inputs, what was shown is what would be shown now.
EvidenceIsCurrent ==
  run.phase # "posting" =>
    /\ \A e \in DOMAIN evidence.workbook :
         /\ e \in Candidates
         /\ \E refdata \in RefDataIfAllowed :
              evidence.workbook[e] = PreviewRow(FullReportFields(e), refdata, today)
    /\ \A e \in DOMAIN evidence.dryRun :
         /\ e \in Candidates
         /\ \E refdata \in RefDataIfAllowed :
              evidence.dryRun[e] = DryRunPreview(Fetched(evidence.route, e), refdata, today)

GreenIsCurrent == (run.phase = "idle" /\ evidence.green) => AllReady(offices, today)

\* What a run has taken is what it would take now, as long as anything shown
\* is still up to date.
TakenIsCurrent ==
  (run.phase = "selected" /\ evidence # NoEvidence) =>
    \A e \in DOMAIN run.taken :
      /\ e \in Candidates
      /\ run.taken[e] = Fetched(run.route, e)
      /\ evidence.green => Acceptable(run.taken[e], offices, today)

\* From then on the evidence is about the inputs of the run.
EvidenceIsOfRun ==
  run.phase = "posting" =>
    \A e \in DOMAIN run.taken :
      /\ e \in DOMAIN evidence.workbook =>
           \E refdata \in {run.refdata, <<>>} :
             evidence.workbook[e] =
               PreviewRow([run.taken[e] EXCEPT !.gender = Blank], refdata, run.now)
      /\ (evidence.route = run.route /\ e \in DOMAIN evidence.dryRun) =>
           \E refdata \in {run.refdata, <<>>} :
             evidence.dryRun[e] = DryRunPreview(run.taken[e], refdata, run.now)
      /\ evidence.green => Acceptable(run.taken[e], run.refdata, run.now)

HandoverInv ==
  /\ Shapes
  /\ ResultsAreAttempts
  /\ EvidenceIsCurrent
  /\ GreenIsCurrent
  /\ TakenIsCurrent
  /\ EvidenceIsOfRun

-----------------------------------------------------------------------------
(***************************************************************************)
(* Rows and payloads.                                                      *)
(***************************************************************************)
LEMMA WithoutGender ==
  ASSUME NEW c, RowShape(c), NEW d, d = [c EXCEPT !.gender = Blank], NEW refdata, NEW now
  PROVE  /\ RowShape(d)
         /\ d = [d EXCEPT !.gender = Blank]
         /\ d.workplace = c.workplace /\ d.phone = c.phone
         /\ PayloadFor(d, refdata, now) = [PayloadFor(c, refdata, now) EXCEPT !.gender = Blank]
         /\ BuildCaseUpdatePayload(d) = BuildCaseUpdatePayload(c)
<1>1. /\ RowShape(d)
      /\ d = [d EXCEPT !.gender = Blank]
      /\ d.gender = Blank
      /\ d.name = c.name /\ d.email = c.email /\ d.dealer = c.dealer /\ d.vip = c.vip
      /\ d.home = c.home /\ d.current = c.current /\ d.phone = c.phone
      /\ d.workplace = c.workplace /\ d.start = c.start /\ d.title = c.title
  BY DEF RowShape, RowFields
<1>2. EffectiveHomeCountry(d) = EffectiveHomeCountry(c)
  BY <1>1 DEF EffectiveHomeCountry
<1>3. Gender(Blank) = Blank
  BY DEF Gender, Blank, Plain, Normal
<1>4. PayloadFor(d, refdata, now) = [PayloadFor(c, refdata, now) EXCEPT !.gender = Blank]
  BY <1>1, <1>2, <1>3 DEF PayloadFor, OfficeFor, BuildBenivoPayload
<1>5. BuildCaseUpdatePayload(d) = BuildCaseUpdatePayload(c)
  BY <1>1, <1>2 DEF BuildCaseUpdatePayload
<1> QED
  BY <1>1, <1>4, <1>5

LEMMA CopiedShape ==
  ASSUME NEW row, RowShape(row)
  PROVE  RowShape(Copied(row))
BY DEF RowShape, RowFields, Copied

LEMMA FieldsShape ==
  ASSUME Shapes, NEW e \in Candidates
  PROVE  /\ RowShape(ReadyFields(e))
         /\ RowShape(FullReportFields(e))
         /\ \A route : RowShape(Fetched(route, e))
         /\ \A route : [Fetched(route, e) EXCEPT !.gender = Blank] = FullReportFields(e)
<1>1. RowShape(cand[e].row)
  BY DEF Shapes
<1>2. RowShape(ReadyFields(e))
  BY <1>1 DEF RowShape, RowFields, ReadyFields
<1>3. RowShape(FullReportFields(e)) /\ [FullReportFields(e) EXCEPT !.gender = Blank] = FullReportFields(e)
  <2>1. FullReportFields(e) = [ReadyFields(e) EXCEPT !.gender = Blank]
    BY DEF FullReportFields
  <2> QED
    BY <1>2, <2>1, WithoutGender
<1> QED
  BY <1>2, <1>3 DEF Fetched, FullReportFields

-----------------------------------------------------------------------------
(***************************************************************************)
(* The invariant holds at the start.                                       *)
(***************************************************************************)
LEMMA EmptyRowShape == RowShape(EmptyRow)
BY DEF RowShape, EmptyRow, RowFields

LEMMA HandoverInit == Init => HandoverInv
<1> SUFFICES ASSUME Init
             PROVE  HandoverInv
  OBVIOUS
<1> USE DEF Init
<1>1. Shapes
  <2>1. \A e \in Candidates : RowShape(jobvite[e])
    BY HandoverAssumption DEF RowShape
  <2>2. \A e \in Candidates : cand[e] = [status |-> "NO_ROW", row |-> EmptyRow]
    OBVIOUS
  <2>3. jobvite = [e \in Candidates |-> jobvite[e]]
    OBVIOUS
  <2>4. cand = [e \in Candidates |-> [status |-> cand[e].status, row |-> cand[e].row]]
    BY <2>2
  <2>5. today \in Months /\ run.now \in Months
    BY HandoverAssumption DEF Idle
  <2>6. \A e \in DOMAIN run.taken : RowShape(run.taken[e])
    BY DEF Idle
  <2> QED
    BY <2>1, <2>2, <2>3, <2>4, <2>5, <2>6, EmptyRowShape DEF Shapes, NoEvidence, Idle
<1>2. ResultsAreAttempts
  BY DEF ResultsAreAttempts, Idle
<1>3. EvidenceIsCurrent /\ GreenIsCurrent /\ TakenIsCurrent /\ EvidenceIsOfRun
  BY DEF EvidenceIsCurrent, GreenIsCurrent, TakenIsCurrent, EvidenceIsOfRun, NoEvidence, Idle
<1> QED
  BY <1>1, <1>2, <1>3 DEF HandoverInv

-----------------------------------------------------------------------------
(***************************************************************************)
(* Steps that may change what the evidence was read from.                  *)
(***************************************************************************)
LEMMA EvidenceAges ==
  ASSUME HandoverInv, AgeEvidence, UNCHANGED run
  PROVE  /\ ResultsAreAttempts'
         /\ EvidenceIsCurrent'
         /\ GreenIsCurrent'
         /\ TakenIsCurrent'
         /\ EvidenceIsOfRun'
<1>0. run' = run
  OBVIOUS
<1>1. ResultsAreAttempts'
  BY <1>0 DEF HandoverInv, ResultsAreAttempts, Attempt, Outcome
<1>2. CASE inputs' = inputs
  <2>1. /\ evidence' = evidence /\ cand' = cand /\ jobvite' = jobvite
        /\ offices' = offices /\ today' = today /\ posted' = posted
    BY <1>2 DEF AgeEvidence, inputs
  <2>2. EvidenceIsCurrent'
    BY <1>0, <2>1 DEF HandoverInv, EvidenceIsCurrent, RefDataIfAllowed, Fetched, FullReportFields, ReadyFields
  <2>3. GreenIsCurrent'
    BY <1>0, <2>1 DEF HandoverInv, GreenIsCurrent, AllReady, Selectable, ReadyFields
  <2>4. TakenIsCurrent'
    BY <1>0, <2>1 DEF HandoverInv, TakenIsCurrent, Fetched, FullReportFields, ReadyFields
  <2>5. EvidenceIsOfRun'
    BY <1>0, <2>1 DEF HandoverInv, EvidenceIsOfRun
  <2> QED
    BY <1>1, <2>2, <2>3, <2>4, <2>5
<1>3. CASE inputs' # inputs /\ run.phase = "posting"
  <2>1. evidence' = evidence
    BY <1>3 DEF AgeEvidence
  <2>2. EvidenceIsCurrent' /\ GreenIsCurrent' /\ TakenIsCurrent'
    BY <1>0, <1>3 DEF EvidenceIsCurrent, GreenIsCurrent, TakenIsCurrent
  <2>3. EvidenceIsOfRun'
    BY <1>0, <2>1 DEF HandoverInv, EvidenceIsOfRun
  <2> QED
    BY <1>1, <2>2, <2>3
<1>4. CASE inputs' # inputs /\ run.phase # "posting"
  <2>1. evidence' = NoEvidence
    BY <1>4 DEF AgeEvidence
  <2>2. EvidenceIsCurrent' /\ GreenIsCurrent' /\ TakenIsCurrent'
    BY <1>0, <2>1 DEF EvidenceIsCurrent, GreenIsCurrent, TakenIsCurrent, NoEvidence
  <2>3. EvidenceIsOfRun'
    BY <1>0, <1>4 DEF EvidenceIsOfRun
  <2> QED
    BY <1>1, <2>2, <2>3
<1> QED
  BY <1>2, <1>3, <1>4

\* The parts of Shapes that such a step leaves as they are.
LEMMA ShapesKept ==
  ASSUME HandoverInv, AgeEvidence, UNCHANGED run,
         jobvite' = [e \in Candidates |-> jobvite'[e]],
         \A e \in Candidates : RowShape(jobvite'[e]),
         cand' = [e \in Candidates |-> [status |-> cand'[e].status, row |-> cand'[e].row]],
         \A e \in Candidates : RowShape(cand'[e].row),
         today' \in Months
  PROVE  HandoverInv'
<1>1. evidence' = evidence \/ evidence' = NoEvidence
  BY DEF AgeEvidence
<1>2. /\ evidence' = [workbook |-> evidence'.workbook, route |-> evidence'.route,
                     dryRun |-> evidence'.dryRun, green |-> evidence'.green]
      /\ evidence'.green \in BOOLEAN
  <2>1. CASE evidence' = evidence
    BY <2>1 DEF HandoverInv, Shapes
  <2>2. CASE evidence' = NoEvidence
    BY <2>2 DEF NoEvidence
  <2> QED
    BY <1>1, <2>1, <2>2
<1>3. Shapes'
  BY <1>2 DEF HandoverInv, Shapes
<1> QED
  BY <1>3, EvidenceAges DEF HandoverInv

LEMMA OutsideStep ==
  ASSUME HandoverInv,
         \/ \E e \in Candidates, row \in Rows : Rewrite(e, row)
         \/ \E list \in RefData : OfficesChange(list)
         \/ MonthEnds
  PROVE  HandoverInv'
<1>1. ASSUME NEW e \in Candidates, NEW row \in Rows, Rewrite(e, row)
      PROVE  HandoverInv'
  <2>1. RowShape(row)
    BY HandoverAssumption DEF RowShape
  <2>2. jobvite' = [f \in Candidates |-> jobvite'[f]] /\ \A f \in Candidates : RowShape(jobvite'[f])
    BY <1>1, <2>1 DEF HandoverInv, Shapes, Rewrite
  <2> QED
    BY <1>1, <2>2, ShapesKept DEF HandoverInv, Shapes, Rewrite
<1>2. ASSUME NEW list \in RefData, OfficesChange(list)
      PROVE  HandoverInv'
  BY <1>2, ShapesKept DEF HandoverInv, Shapes, OfficesChange
<1>3. CASE MonthEnds
  BY <1>3, NextMonthIsMonth, ShapesKept DEF HandoverInv, Shapes, MonthEnds
<1> QED
  BY <1>1, <1>2, <1>3

LEMMA SyncStep ==
  ASSUME HandoverInv, Sync
  PROVE  HandoverInv'
<1>1. ASSUME NEW e \in Candidates
      PROVE  /\ Synced(e) = [status |-> Synced(e).status, row |-> Synced(e).row]
             /\ RowShape(Synced(e).row)
  <2>1. RowShape(Copied(jobvite[e]))
    BY CopiedShape DEF HandoverInv, Shapes
  <2>2. RowShape([cand[e].row EXCEPT !.workflow = jobvite[e].workflow])
    BY DEF HandoverInv, Shapes, RowShape, RowFields
  <2>3. cand[e] = [status |-> cand[e].status, row |-> cand[e].row] /\ RowShape(cand[e].row)
    BY DEF HandoverInv, Shapes
  <2> QED
    BY <2>1, <2>2, <2>3 DEF Synced
<1>2. \A e \in Candidates : cand'[e] = Synced(e)
  BY DEF Sync
<1>3. cand' = [e \in Candidates |-> [status |-> cand'[e].status, row |-> cand'[e].row]]
  BY <1>1, <1>2 DEF Sync
<1>4. \A e \in Candidates : RowShape(cand'[e].row)
  BY <1>1, <1>2
<1> QED
  BY <1>3, <1>4, ShapesKept DEF HandoverInv, Shapes, Sync

LEMMA ClassifyStep ==
  ASSUME HandoverInv, ClassifyAll
  PROVE  HandoverInv'
<1>1. ASSUME NEW e \in Candidates
      PROVE  /\ cand'[e] = [status |-> cand'[e].status, row |-> cand[e].row]
             /\ RowShape(cand'[e].row)
  <2>1. cand[e] = [status |-> cand[e].status, row |-> cand[e].row] /\ RowShape(cand[e].row)
    BY DEF HandoverInv, Shapes
  <2>2. cand'[e] = [cand[e] EXCEPT !.status = Verdict(e)] \/ cand'[e] = cand[e]
    BY DEF ClassifyAll
  <2> QED
    BY <2>1, <2>2
<1>2. cand' = [e \in Candidates |-> [status |-> cand'[e].status, row |-> cand'[e].row]]
  BY <1>1 DEF ClassifyAll
<1> QED
  BY <1>1, <1>2, ShapesKept DEF HandoverInv, Shapes, ClassifyAll

-----------------------------------------------------------------------------
(***************************************************************************)
(* What the operator is shown.                                             *)
(***************************************************************************)
LEMMA ShownShapes ==
  ASSUME HandoverInv, jobvite' = jobvite, cand' = cand, today' = today, run' = run,
         evidence' = [workbook |-> evidence'.workbook, route |-> evidence'.route,
                      dryRun |-> evidence'.dryRun, green |-> evidence'.green],
         evidence'.green \in BOOLEAN
  PROVE  Shapes' /\ ResultsAreAttempts'
<1>1. Shapes'
  BY DEF HandoverInv, Shapes
<1>2. ResultsAreAttempts'
  BY DEF HandoverInv, ResultsAreAttempts, Attempt, Outcome
<1> QED
  BY <1>1, <1>2

LEMMA ReportStep ==
  ASSUME HandoverInv, Report
  PROVE  HandoverInv'
<1>0. run.phase = "idle" /\ UNCHANGED <<jobvite, cand, posted, offices, today, changes, run>>
  BY DEF Report
<1>1. PICK refdata \in RefDataIfAllowed :
        evidence' = [NoEvidence EXCEPT !.workbook = PayloadPreview(refdata)]
  BY DEF Report
<1>2. evidence' = [workbook |-> PayloadPreview(refdata), route |-> "query", dryRun |-> <<>>, green |-> FALSE]
  BY <1>1 DEF NoEvidence
<1>3. Shapes' /\ ResultsAreAttempts'
  <2>1. /\ evidence' = [workbook |-> evidence'.workbook, route |-> evidence'.route,
                        dryRun |-> evidence'.dryRun, green |-> evidence'.green]
        /\ evidence'.green \in BOOLEAN
    BY <1>2
  <2> QED
    BY <1>0, <2>1, ShownShapes
<1>4. \A e \in DOMAIN evidence'.workbook :
        /\ e \in Candidates
        /\ evidence'.workbook[e] = PreviewRow(FullReportFields(e), refdata, today)
  BY <1>2 DEF PayloadPreview
<1>5. DOMAIN evidence'.dryRun = {}
  BY <1>2
<1>6. EvidenceIsCurrent'
  <2>1. refdata \in RefDataIfAllowed'
    BY <1>0 DEF RefDataIfAllowed
  <2>2. \A e : FullReportFields(e)' = FullReportFields(e)
    BY <1>0 DEF FullReportFields, ReadyFields
  <2> QED
    BY <1>0, <1>4, <1>5, <2>1, <2>2 DEF EvidenceIsCurrent
<1>7. GreenIsCurrent' /\ TakenIsCurrent' /\ EvidenceIsOfRun'
  BY <1>0, <1>2 DEF GreenIsCurrent, TakenIsCurrent, EvidenceIsOfRun
<1> QED
  BY <1>3, <1>6, <1>7 DEF HandoverInv

LEMMA DryRunStep ==
  ASSUME HandoverInv, NEW route \in Routes, DryRun(route)
  PROVE  HandoverInv'
<1>0. run.phase = "idle" /\ UNCHANGED <<jobvite, cand, posted, offices, today, changes, run>>
  BY DEF DryRun
<1>1. PICK chosen \in MaySelect(route), refdata \in RefDataIfAllowed :
        evidence' = [NoEvidence EXCEPT !.route = route,
                       !.dryRun = [e \in chosen |-> DryRunPreview(Fetched(route, e), refdata, today)]]
  BY DEF DryRun
<1>2. evidence' = [workbook |-> <<>>, route |-> route,
                   dryRun |-> [e \in chosen |-> DryRunPreview(Fetched(route, e), refdata, today)],
                   green |-> FALSE]
  BY <1>1 DEF NoEvidence
<1>3. Shapes' /\ ResultsAreAttempts'
  <2>1. /\ evidence' = [workbook |-> evidence'.workbook, route |-> evidence'.route,
                        dryRun |-> evidence'.dryRun, green |-> evidence'.green]
        /\ evidence'.green \in BOOLEAN
    BY <1>2
  <2> QED
    BY <1>0, <2>1, ShownShapes
<1>4. chosen \subseteq Candidates
  BY DEF MaySelect
<1>5. \A e \in DOMAIN evidence'.dryRun :
        /\ e \in Candidates
        /\ evidence'.dryRun[e] = DryRunPreview(Fetched(evidence'.route, e), refdata, today)
  BY <1>2, <1>4
<1>6. EvidenceIsCurrent'
  <2>1. refdata \in RefDataIfAllowed'
    BY <1>0 DEF RefDataIfAllowed
  <2>2. \A e : Fetched(route, e)' = Fetched(route, e)
    BY <1>0 DEF Fetched, FullReportFields, ReadyFields
  <2>3. DOMAIN evidence'.workbook = {} /\ evidence'.route = route
    BY <1>2
  <2> QED
    BY <1>0, <1>5, <2>1, <2>2, <2>3 DEF EvidenceIsCurrent, Fetched
<1>7. GreenIsCurrent' /\ TakenIsCurrent' /\ EvidenceIsOfRun'
  BY <1>0, <1>2 DEF GreenIsCurrent, TakenIsCurrent, EvidenceIsOfRun
<1> QED
  BY <1>3, <1>6, <1>7 DEF HandoverInv

LEMMA ValidateStep ==
  ASSUME HandoverInv, ValidateReadyCandidates
  PROVE  HandoverInv'
<1>0. run.phase = "idle" /\ UNCHANGED <<jobvite, cand, posted, offices, today, changes, run>>
  BY DEF ValidateReadyCandidates
<1>1. evidence' = [workbook |-> <<>>, route |-> "query", dryRun |-> <<>>,
                   green |-> AllReady(offices, today)]
  BY DEF ValidateReadyCandidates, NoEvidence
<1>2. AllReady(offices, today) \in BOOLEAN
  BY DEF AllReady
<1>3. Shapes' /\ ResultsAreAttempts'
  <2>1. /\ evidence' = [workbook |-> evidence'.workbook, route |-> evidence'.route,
                        dryRun |-> evidence'.dryRun, green |-> evidence'.green]
        /\ evidence'.green \in BOOLEAN
    BY <1>1, <1>2
  <2> QED
    BY <1>0, <2>1, ShownShapes
<1>4. AllReady(offices, today)' = AllReady(offices, today)
  BY <1>0 DEF AllReady, Selectable, ReadyFields
<1>5. GreenIsCurrent'
  BY <1>1, <1>4 DEF GreenIsCurrent
<1>6. EvidenceIsCurrent' /\ TakenIsCurrent' /\ EvidenceIsOfRun'
  BY <1>0, <1>1 DEF EvidenceIsCurrent, TakenIsCurrent, EvidenceIsOfRun
<1> QED
  BY <1>3, <1>5, <1>6 DEF HandoverInv

-----------------------------------------------------------------------------
(***************************************************************************)
(* A run.                                                                  *)
(***************************************************************************)
LEMMA SelectStep ==
  ASSUME HandoverInv, NEW route \in Routes, Select(route)
  PROVE  HandoverInv'
<1>0. run.phase = "idle" /\ UNCHANGED <<jobvite, cand, posted, offices, today, changes>>
  BY DEF Select
<1>1. PICK chosen \in MaySelect(route) :
        run' = [Idle EXCEPT !.phase = "selected", !.route = route, !.waiting = chosen,
                            !.taken = [e \in chosen |-> Fetched(route, e)]]
  BY DEF Select
<1>2. run' = [phase |-> "selected", route |-> route, taken |-> [e \in chosen |-> Fetched(route, e)],
              refdata |-> <<>>, now |-> StartMonth, waiting |-> chosen, results |-> {}]
  BY <1>1 DEF Idle
<1>3. chosen \subseteq Candidates
  BY DEF MaySelect
<1>4. /\ evidence' = [workbook |-> evidence.workbook, route |-> evidence.route,
                      dryRun |-> evidence.dryRun, green |-> Vouched(route)]
      /\ Vouched(route) \in BOOLEAN
  BY DEF HandoverInv, Shapes, Select, Vouched
<1>5. Shapes'
  <2>1. \A e \in DOMAIN run'.taken : RowShape(run'.taken[e])
    BY <1>2, <1>3, FieldsShape DEF HandoverInv
  <2>2. run'.now \in Months /\ run'.waiting \subseteq DOMAIN run'.taken
    BY <1>2, HandoverAssumption
  <2> QED
    BY <1>0, <1>2, <1>4, <2>1, <2>2 DEF HandoverInv, Shapes
<1>6. ResultsAreAttempts'
  BY <1>2 DEF ResultsAreAttempts
<1>7. \A r, e : /\ Fetched(r, e)' = Fetched(r, e)
               /\ FullReportFields(e)' = FullReportFields(e)
  BY <1>0 DEF Fetched, FullReportFields, ReadyFields
<1>8. EvidenceIsCurrent'
  <2>1. RefDataIfAllowed' = RefDataIfAllowed
    BY <1>0 DEF RefDataIfAllowed
  <2>2. evidence'.workbook = evidence.workbook /\ evidence'.dryRun = evidence.dryRun
        /\ evidence'.route = evidence.route
    BY <1>4
  <2>3. \A e : Fetched(evidence.route, e)' = Fetched(evidence.route, e)
    BY <1>0, <2>2 DEF Fetched, FullReportFields, ReadyFields
  <2>4. \A e : FullReportFields(e)' = FullReportFields(e)
    BY <1>7
  <2>5. EvidenceIsCurrent
    BY DEF HandoverInv
  <2> QED
    BY <1>0, <2>1, <2>2, <2>3, <2>4, <2>5 DEF EvidenceIsCurrent
<1>9. TakenIsCurrent'
  <2>1. ASSUME NEW e \in chosen, Vouched(route)
        PROVE  Acceptable(Fetched(route, e), offices, today)
    <3>1. CASE route = "uat"
      <4>1. UatEligible(e)
        BY <2>1, <3>1 DEF MaySelect
      <4> QED
        BY <3>1, <4>1 DEF UatEligible, Fetched
    <3>2. CASE route # "uat"
      <4>1. route = "query" /\ evidence.green
        BY <2>1, <3>2 DEF Vouched
      <4>2. AllReady(offices, today)
        BY <1>0, <4>1 DEF HandoverInv, GreenIsCurrent
      <4>3. e \in Candidates /\ Selectable(e)
        BY <3>2 DEF MaySelect
      <4> QED
        BY <4>1, <4>2, <4>3 DEF AllReady, Fetched
    <3> QED
      BY <3>1, <3>2
  <2>2. \A e \in chosen :
          /\ e \in Candidates
          /\ run'.taken[e] = Fetched(route, e)
          /\ evidence'.green => Acceptable(run'.taken[e], offices, today)
    BY <1>2, <1>3, <1>4, <2>1
  <2>3. DOMAIN run'.taken = chosen /\ run'.route = route
    BY <1>2
  <2>4. \A e : Fetched(route, e)' = Fetched(route, e)
    BY <1>7
  <2> QED
    BY <1>0, <2>2, <2>3, <2>4 DEF TakenIsCurrent, Fetched
<1>10. GreenIsCurrent' /\ EvidenceIsOfRun'
  BY <1>2 DEF GreenIsCurrent, EvidenceIsOfRun
<1> QED
  BY <1>5, <1>6, <1>8, <1>9, <1>10 DEF HandoverInv

LEMMA FetchStep ==
  ASSUME HandoverInv, Fetch
  PROVE  HandoverInv'
<1>0. /\ run.phase = "selected"
      /\ UNCHANGED <<jobvite, cand, posted, offices, today, changes, evidence>>
  BY DEF Fetch
<1>1. /\ run' = [phase |-> "posting", route |-> run.route, taken |-> run.taken,
                 refdata |-> offices, now |-> today, waiting |-> run.waiting,
                 results |-> run.results]
      /\ today \in Months
  BY DEF HandoverInv, Shapes, Fetch
<1>2. Shapes'
  BY <1>0, <1>1 DEF HandoverInv, Shapes
<1>3. ResultsAreAttempts'
  BY <1>0, <1>1 DEF HandoverInv, ResultsAreAttempts
<1>4. EvidenceIsCurrent' /\ GreenIsCurrent' /\ TakenIsCurrent'
  BY <1>1 DEF EvidenceIsCurrent, GreenIsCurrent, TakenIsCurrent
<1>5. ASSUME NEW e \in DOMAIN run.taken
      PROVE  /\ e \in DOMAIN evidence.workbook =>
                  \E refdata \in {offices, <<>>} :
                    evidence.workbook[e] =
                      PreviewRow([run.taken[e] EXCEPT !.gender = Blank], refdata, today)
             /\ (evidence.route = run.route /\ e \in DOMAIN evidence.dryRun) =>
                  \E refdata \in {offices, <<>>} :
                    evidence.dryRun[e] = DryRunPreview(run.taken[e], refdata, today)
             /\ evidence.green => Acceptable(run.taken[e], offices, today)
  <2>1. CASE evidence = NoEvidence
    BY <2>1 DEF NoEvidence
  <2>2. CASE evidence # NoEvidence
    <3>1. /\ e \in Candidates
          /\ run.taken[e] = Fetched(run.route, e)
          /\ evidence.green => Acceptable(run.taken[e], offices, today)
      BY <1>0, <2>2 DEF HandoverInv, TakenIsCurrent
    <3>2. [run.taken[e] EXCEPT !.gender = Blank] = FullReportFields(e)
      BY <3>1, FieldsShape DEF HandoverInv
    <3>3. EvidenceIsCurrent /\ run.phase # "posting"
      BY <1>0 DEF HandoverInv
    <3>4. ASSUME e \in DOMAIN evidence.workbook
          PROVE  \E refdata \in {offices, <<>>} :
                   evidence.workbook[e] =
                     PreviewRow([run.taken[e] EXCEPT !.gender = Blank], refdata, today)
      BY <3>2, <3>3, <3>4 DEF EvidenceIsCurrent, RefDataIfAllowed
    <3>5. ASSUME evidence.route = run.route, e \in DOMAIN evidence.dryRun
          PROVE  \E refdata \in {offices, <<>>} :
                   evidence.dryRun[e] = DryRunPreview(run.taken[e], refdata, today)
      BY <3>1, <3>3, <3>5 DEF EvidenceIsCurrent, RefDataIfAllowed
    <3> QED
      BY <3>1, <3>4, <3>5
  <2> QED
    BY <2>1, <2>2
<1>6. EvidenceIsOfRun'
  <2>1. /\ run'.taken = run.taken /\ run'.route = run.route
        /\ run'.refdata = offices /\ run'.now = today
    BY <1>1
  <2>2. evidence' = evidence
    BY <1>0
  <2> QED
    BY <1>5, <2>1, <2>2 DEF EvidenceIsOfRun
<1> QED
  BY <1>2, <1>3, <1>4, <1>6 DEF HandoverInv

LEMMA PostStep ==
  ASSUME HandoverInv, NEW e \in Candidates, Post(e)
  PROVE  HandoverInv'
<1>0. /\ run.phase = "posting" /\ e \in run.waiting
      /\ UNCHANGED <<jobvite, cand, posted, offices, today, changes, evidence>>
  BY DEF Post
<1>1. PICK answer \in Answers :
        run' = [run EXCEPT !.waiting = @ \ {e}, !.results = @ \cup {Attempt(e, answer)}]
  BY DEF Post
<1>2. run' = [phase |-> run.phase, route |-> run.route, taken |-> run.taken,
              refdata |-> run.refdata, now |-> run.now, waiting |-> run.waiting \ {e},
              results |-> run.results \cup {Attempt(e, answer)}]
  BY <1>1 DEF HandoverInv, Shapes
<1>3. Shapes'
  BY <1>0, <1>2 DEF HandoverInv, Shapes
<1>4. /\ run'.taken = run.taken /\ run'.refdata = run.refdata /\ run'.now = run.now
      /\ run'.route = run.route /\ run'.phase = "posting"
  BY <1>0, <1>2
<1>5. ResultsAreAttempts'
  <2>1. \A f, a : Attempt(f, a)' = Attempt(f, a)
    BY <1>4 DEF Attempt, Outcome
  <2>2. Attempt(e, answer).eid = e
    BY DEF Attempt, Outcome
  <2>3. e \in DOMAIN run.taken
    BY <1>0 DEF HandoverInv, Shapes
  <2>4. ASSUME NEW result \in run'.results
        PROVE  /\ result.eid \in DOMAIN run.taken
               /\ \E a \in Answers : result = Attempt(result.eid, a)
    <3>1. CASE result \in run.results
      BY <3>1 DEF HandoverInv, ResultsAreAttempts
    <3>2. CASE result = Attempt(e, answer)
      BY <2>2, <2>3, <3>2
    <3> QED
      BY <1>2, <3>1, <3>2
  <2> QED
    BY <1>4, <2>1, <2>4 DEF ResultsAreAttempts
<1>6. EvidenceIsCurrent' /\ GreenIsCurrent' /\ TakenIsCurrent'
  BY <1>4 DEF EvidenceIsCurrent, GreenIsCurrent, TakenIsCurrent
<1>7. EvidenceIsOfRun'
  BY <1>0, <1>4 DEF HandoverInv, EvidenceIsOfRun
<1> QED
  BY <1>3, <1>5, <1>6, <1>7 DEF HandoverInv

LEMMA RecordStep ==
  ASSUME HandoverInv, Record
  PROVE  HandoverInv'
<1>0. /\ run' = Idle /\ evidence' = NoEvidence
      /\ UNCHANGED <<jobvite, offices, today, changes>>
  BY DEF Record
<1>1. ASSUME NEW e \in Candidates
      PROVE  /\ cand'[e] = [status |-> cand'[e].status, row |-> cand[e].row]
             /\ RowShape(cand'[e].row)
  <2>1. cand[e] = [status |-> cand[e].status, row |-> cand[e].row] /\ RowShape(cand[e].row)
    BY DEF HandoverInv, Shapes
  <2>2. \/ cand'[e] = [cand[e] EXCEPT !.status = Posted]
        \/ cand'[e] = [cand[e] EXCEPT !.status = "POST_FAILED"]
        \/ cand'[e] = cand[e]
    BY DEF Record
  <2> QED
    BY <2>1, <2>2
<1>2. cand' = [e \in Candidates |-> [status |-> cand'[e].status, row |-> cand'[e].row]]
  BY <1>1 DEF Record
<1>3. Shapes'
  <2>1. \A e \in DOMAIN run'.taken : RowShape(run'.taken[e])
    BY <1>0 DEF Idle
  <2> QED
    BY <1>0, <1>1, <1>2, <2>1, HandoverAssumption DEF HandoverInv, Shapes, Idle, NoEvidence
<1>4. ResultsAreAttempts'
  BY <1>0 DEF ResultsAreAttempts, Idle
<1>5. EvidenceIsCurrent' /\ GreenIsCurrent' /\ TakenIsCurrent' /\ EvidenceIsOfRun'
  BY <1>0 DEF EvidenceIsCurrent, GreenIsCurrent, TakenIsCurrent, EvidenceIsOfRun, NoEvidence, Idle
<1> QED
  BY <1>3, <1>4, <1>5 DEF HandoverInv

LEMMA StutterStep ==
  ASSUME HandoverInv, UNCHANGED vars
  PROVE  HandoverInv'
<1>1. inputs' = inputs /\ AgeEvidence /\ run' = run
  BY DEF vars, inputs, AgeEvidence
<1>2. jobvite' = jobvite /\ cand' = cand /\ today' = today
  BY DEF vars
<1> QED
  BY <1>1, <1>2, ShapesKept DEF HandoverInv, Shapes

-----------------------------------------------------------------------------
(***************************************************************************)
(* The theorems.                                                           *)
(***************************************************************************)

\* What was shown, what a run has taken and what its attempts made of it stay
\* tied together, whatever the tables, the calendar and Benivo's list do.
THEOREM HandoverInvHolds == Spec => []HandoverInv
<1>1. HandoverInv /\ [Next]_vars => HandoverInv'
  <2> SUFFICES ASSUME HandoverInv, [Next]_vars
               PROVE  HandoverInv'
    OBVIOUS
  <2>1. CASE UNCHANGED vars
    BY <2>1, StutterStep
  <2>2. CASE Sync \/ ClassifyAll
    BY <2>2, SyncStep, ClassifyStep
  <2>3. CASE Report \/ ValidateReadyCandidates
    BY <2>3, ReportStep, ValidateStep
  <2>4. CASE Fetch \/ Record
    BY <2>4, FetchStep, RecordStep
  <2>5. CASE \E route \in Routes : DryRun(route) \/ Select(route)
    BY <2>5, DryRunStep, SelectStep
  <2>6. CASE \E e \in Candidates : Post(e)
    BY <2>6, PostStep
  <2> QED
    BY <2>1, <2>2, <2>3, <2>4, <2>5, <2>6, OutsideStep DEF Next
<1> QED
  BY <1>1, HandoverInit, PTL DEF Spec

\* What a result says in terms of the candidate its run took.
LEMMA ResultOfTaken ==
  ASSUME HandoverInv, NEW result \in run.results
  PROVE  /\ run.phase = "posting"
         /\ result.eid \in DOMAIN run.taken
         /\ \A payload \in result.request :
              payload = PayloadFor(run.taken[result.eid], run.refdata, run.now)
         /\ result.casePatch \subseteq {BuildCaseUpdatePayload(run.taken[result.eid])}
         /\ result.verdict \in Answers <=> Acceptable(run.taken[result.eid], run.refdata, run.now)
<1>1. run.phase = "posting" /\ result.eid \in DOMAIN run.taken
  BY DEF HandoverInv, ResultsAreAttempts
<1>2. PICK answer \in Answers : result = Attempt(result.eid, answer)
  BY DEF HandoverInv, ResultsAreAttempts
<1> DEFINE eid == result.eid
           c == run.taken[eid]
           payload == PayloadFor(c, run.refdata, run.now)
<1>3. result = Outcome(eid, c, run.now, answer)
  BY <1>2 DEF Attempt
<1>4. CASE ~OfficeFor(c, run.refdata).found
  <2>1. result.verdict = "no_office" /\ result.request = {} /\ result.casePatch = {}
    BY <1>3, <1>4 DEF Outcome
  <2> QED
    BY <1>1, <1>4, <2>1 DEF Answers, Acceptable
<1>5. CASE OfficeFor(c, run.refdata).found /\ ~ValidatePayload(payload)
  <2>1. result.verdict = "invalid" /\ result.request = {payload} /\ result.casePatch = {}
    BY <1>3, <1>5 DEF Outcome
  <2> QED
    BY <1>1, <1>5, <2>1 DEF Answers, Acceptable
<1>6. CASE OfficeFor(c, run.refdata).found /\ ValidatePayload(payload)
  <2>1. /\ result.verdict = answer /\ result.request = {payload}
        /\ result.casePatch \subseteq {BuildCaseUpdatePayload(c)}
    BY <1>3, <1>6 DEF Outcome
  <2> QED
    BY <1>1, <1>6, <2>1 DEF Acceptable
<1> QED
  BY <1>4, <1>5, <1>6

\* A payload without an office id was shown without a list.
LEMMA ShownWithList ==
  ASSUME NEW c, NEW now, Given(PayloadFor(c, <<>>, now).officeId)
  PROVE  FALSE
<1>1. PayloadFor(c, <<>>, now).officeId = ResolveOffice(c.workplace, <<>>).id
  BY DEF PayloadFor, OfficeFor, BuildBenivoPayload
<1> QED
  BY <1>1, NothingListed

\* The Payload Preview shows what is sent, but for the gender.
THEOREM PreviewShowsWhatIsSent == Spec => []ReviewedIsSent
<1>1. HandoverInv => ReviewedIsSent
  <2> SUFFICES ASSUME HandoverInv,
                      NEW result \in run.results, NEW payload \in result.request,
                      result.eid \in DOMAIN evidence.workbook,
                      Given(evidence.workbook[result.eid].payload.officeId)
               PROVE  LET shown == evidence.workbook[result.eid]
                      IN /\ shown.payload = [payload EXCEPT !.gender = Blank, !.phoneNumber = Blank]
                         /\ PhoneNumber(shown.phone) = payload.phoneNumber
                         /\ result.casePatch \subseteq {shown.case}
    BY DEF ReviewedIsSent
  <2> DEFINE c == run.taken[result.eid]
             d == [c EXCEPT !.gender = Blank]
             shown == evidence.workbook[result.eid]
  <2>1. /\ run.phase = "posting"
        /\ result.eid \in DOMAIN run.taken
        /\ payload = PayloadFor(c, run.refdata, run.now)
        /\ result.casePatch \subseteq {BuildCaseUpdatePayload(c)}
    BY ResultOfTaken
  <2>2. PICK refdata \in {run.refdata, <<>>} : shown = PreviewRow(d, refdata, run.now)
    BY <2>1 DEF HandoverInv, EvidenceIsOfRun
  <2>3. /\ shown.payload = [PayloadFor(d, refdata, run.now) EXCEPT !.phoneNumber = Blank]
        /\ shown.phone = d.phone
        /\ shown.case = BuildCaseUpdatePayload(d)
    BY <2>2 DEF PreviewRow
  <2>4. refdata = run.refdata
    BY <2>2, ShownWithList DEF PreviewRow, PayloadFor, BuildBenivoPayload
  <2>5. RowShape(c)
    BY <2>1 DEF HandoverInv, Shapes
  <2>6. d = [c EXCEPT !.gender = Blank]
    OBVIOUS
  <2> HIDE DEF c, d, shown
  <2>7. /\ d.phone = c.phone
        /\ PayloadFor(d, refdata, run.now) = [PayloadFor(c, refdata, run.now) EXCEPT !.gender = Blank]
        /\ BuildCaseUpdatePayload(d) = BuildCaseUpdatePayload(c)
    BY <2>5, <2>6, WithoutGender
  <2>8. shown.payload = [payload EXCEPT !.gender = Blank, !.phoneNumber = Blank]
    BY <2>1, <2>3, <2>4, <2>7
  <2>9. PhoneNumber(shown.phone) = payload.phoneNumber
    <3>1. payload.phoneNumber = PhoneNumber(c.phone)
      BY <2>1 DEF PayloadFor, BuildBenivoPayload
    <3> QED
      BY <2>3, <2>7, <3>1
  <2>10. shown.case = BuildCaseUpdatePayload(c)
    BY <2>3, <2>7
  <2> QED
    BY <2>1, <2>8, <2>9, <2>10 DEF shown
<1> QED
  BY <1>1, HandoverInvHolds, PTL

\* Masking the email leaves the office as it is.
LEMMA MaskingKeepsOffice ==
  ASSUME NEW c, NEW refdata, NEW now
  PROVE  SanitizePayload(PayloadFor(c, refdata, now)).officeId = PayloadFor(c, refdata, now).officeId
BY DEF SanitizePayload, PayloadFor, BuildBenivoPayload

\* A dry run shows what the real run sends, with the email masked.
THEOREM DryRunShowsWhatIsSent == Spec => []DryRunIsSent
<1>1. HandoverInv => DryRunIsSent
  <2> SUFFICES ASSUME HandoverInv,
                      NEW result \in run.results, NEW payload \in result.request,
                      evidence.route = run.route, result.eid \in DOMAIN evidence.dryRun,
                      Given(evidence.dryRun[result.eid].payload.officeId)
               PROVE  /\ evidence.dryRun[result.eid].payload = SanitizePayload(payload)
                      /\ result.casePatch \subseteq {evidence.dryRun[result.eid].case}
    BY DEF DryRunIsSent
  <2> DEFINE c == run.taken[result.eid]
             shown == evidence.dryRun[result.eid]
  <2>1. /\ run.phase = "posting"
        /\ result.eid \in DOMAIN run.taken
        /\ payload = PayloadFor(c, run.refdata, run.now)
        /\ result.casePatch \subseteq {BuildCaseUpdatePayload(c)}
    BY ResultOfTaken
  <2>2. PICK refdata \in {run.refdata, <<>>} : shown = DryRunPreview(c, refdata, run.now)
    BY <2>1 DEF HandoverInv, EvidenceIsOfRun
  <2>3. /\ shown.payload = SanitizePayload(PayloadFor(c, refdata, run.now))
        /\ shown.case = BuildCaseUpdatePayload(c)
    BY <2>2 DEF DryRunPreview
  <2>4. Given(PayloadFor(c, refdata, run.now).officeId)
    BY <2>3, MaskingKeepsOffice
  <2>5. refdata = run.refdata
    BY <2>4, ShownWithList
  <2> QED
    BY <2>1, <2>3, <2>5
<1> QED
  BY <1>1, HandoverInvHolds, PTL

\* Ready means acceptable: payload_ready asks for at least what the posting
\* asks for.
LEMMA ReadyIsAcceptable ==
  ASSUME NEW c, NEW refdata, NEW now,
         PayloadReady(PayloadFor(c, refdata, now), BuildCaseUpdatePayload(c))
  PROVE  Acceptable(c, refdata, now)
<1>1. PayloadFor(c, refdata, now).officeId = OfficeFor(c, refdata).id
  BY DEF PayloadFor, BuildBenivoPayload
<1>2. OfficeFor(c, refdata).found
  BY <1>1, OfficeFound DEF PayloadReady, OfficeFor, ValidatePayload
<1>3. ValidatePayload(PayloadFor(c, refdata, now))
  BY DEF PayloadReady, ValidatePayload
<1> QED
  BY <1>2, <1>3 DEF Acceptable

\* What was called ready is not turned down by the posting.
THEOREM ReadyMeansAccepted == Spec => []ReadyIsNotRejected
<1>1. HandoverInv => ReadyIsNotRejected
  <2> SUFFICES ASSUME HandoverInv, NEW result \in run.results,
                      \/ evidence.green
                      \/ result.eid \in DOMAIN evidence.workbook /\ evidence.workbook[result.eid].ready
               PROVE  result.verdict \in Answers
    BY DEF ReadyIsNotRejected
  <2> DEFINE c == run.taken[result.eid]
             d == [c EXCEPT !.gender = Blank]
             shown == evidence.workbook[result.eid]
  <2>1. /\ run.phase = "posting"
        /\ result.eid \in DOMAIN run.taken
        /\ result.verdict \in Answers <=> Acceptable(c, run.refdata, run.now)
    BY ResultOfTaken
  <2>2. CASE evidence.green
    BY <2>1, <2>2 DEF HandoverInv, EvidenceIsOfRun
  <2>3. CASE result.eid \in DOMAIN evidence.workbook /\ shown.ready
    <3>1. PICK refdata \in {run.refdata, <<>>} : shown = PreviewRow(d, refdata, run.now)
      BY <2>1, <2>3 DEF HandoverInv, EvidenceIsOfRun
    <3>2. PayloadReady(PayloadFor(d, refdata, run.now), BuildCaseUpdatePayload(d))
      BY <2>3, <3>1 DEF PreviewRow
    <3>3. Given(PayloadFor(d, refdata, run.now).officeId)
      BY <3>2 DEF PayloadReady
    <3>4. refdata = run.refdata
      BY <3>1, <3>3, ShownWithList
    <3>5. Acceptable(d, run.refdata, run.now)
      BY <3>2, <3>4, ReadyIsAcceptable
    <3>6. RowShape(c)
      BY <2>1 DEF HandoverInv, Shapes
    <3>7. d = [c EXCEPT !.gender = Blank]
      OBVIOUS
    <3> HIDE DEF c, d
    <3>8. /\ d.workplace = c.workplace
          /\ PayloadFor(d, run.refdata, run.now)
               = [PayloadFor(c, run.refdata, run.now) EXCEPT !.gender = Blank]
      BY <3>6, <3>7, WithoutGender
    <3>9. ValidatePayload(PayloadFor(c, run.refdata, run.now))
      BY <3>5, <3>8 DEF Acceptable, ValidatePayload, PayloadFor, BuildBenivoPayload
    <3>10. OfficeFor(c, run.refdata).found
      BY <3>5, <3>8 DEF Acceptable, OfficeFor
    <3> QED
      BY <2>1, <3>9, <3>10 DEF Acceptable
  <2> QED
    BY <2>2, <2>3
<1> QED
  BY <1>1, HandoverInvHolds, PTL

\* One run calculates one date, the first of the third month from its own.
THEOREM OneCalculatedDate == Spec => []DatesAreOfOneRun
<1>1. HandoverInv => DatesAreOfOneRun
  <2> DEFINE third == MonthAfter(MonthAfter(MonthAfter(run.now)))
  <2> SUFFICES ASSUME HandoverInv, NEW result \in run.results, NEW payload \in result.request
               PROVE  payload.startDate =
                        IF run.taken[result.eid].start = NoDate
                        THEN [year |-> third.year, month |-> third.month, day |-> 1]
                        ELSE run.taken[result.eid].start
    BY DEF DatesAreOfOneRun
  <2> DEFINE c == run.taken[result.eid]
  <2>1. payload = PayloadFor(c, run.refdata, run.now)
    BY ResultOfTaken
  <2>2. payload.startDate = EffectiveStartDate(c.start, run.now)
    BY <2>1 DEF PayloadFor, BuildBenivoPayload
  <2>3. run.now \in Months
    BY DEF HandoverInv, Shapes
  <2>4. FirstDayOfNthMonthAfter(run.now, StartDateOffsetMonths)
          = [year |-> third.year, month |-> third.month, day |-> 1]
    BY <2>3, ThirdMonthAfter
  <2> HIDE DEF third
  <2> QED
    BY <2>2, <2>4 DEF EffectiveStartDate
<1> QED
  BY <1>1, HandoverInvHolds, PTL

\* Classifying the fields is classifying Domain's view of them.
THEOREM FieldsClassifyAsDomain == Spec => []ClassifiesAsDomain
<1>1. ASSUME NEW e
      PROVE  Verdict(e) = Classify(OfRow(cand[e].row), OfRow(jobvite[e]))
  BY AlwaysAStartDate DEF Verdict, ClassifyFields, Classify, OfRow
<1>2. ClassifiesAsDomain
  BY <1>1 DEF ClassifiesAsDomain
<1> QED
  BY <1>2, PTL

\* Only an incomplete candidate, an unmapped workplace and an office that
\* Benivo's list has no id for keep an attempt from Benivo.
THEOREM RejectionsAreDomains == Spec => []RejectedAsDomain
<1>1. ASSUME NEW c, NEW refdata, NEW now
      PROVE  Acceptable(c, refdata, now) <=>
               /\ OfRow(c).complete
               /\ OfRow(c).office
               /\ OfficeName(c.workplace) \in DOMAIN refdata
               /\ Given(refdata[OfficeName(c.workplace)])
  <2> DEFINE office == ResolveOffice(c.workplace, refdata)
             payload == PayloadFor(c, refdata, now)
  <2>1. /\ payload.name = c.name /\ payload.email = c.email /\ payload.officeId = office.id
        /\ payload.policy = PopulationApiValue(Population(c.dealer, c.vip))
        /\ payload.startDate = EffectiveStartDate(c.start, now)
    BY DEF PayloadFor, OfficeFor, BuildBenivoPayload
  <2>2. ValidatePayload(payload) <=> Given(c.name) /\ Given(c.email) /\ Given(office.id)
    BY <2>1, AlwaysAPopulation, AlwaysAStartDate DEF ValidatePayload
  <2>3. Given(office.id) => office.found
    BY OfficeFound
  <2>4. Acceptable(c, refdata, now) <=> Given(c.name) /\ Given(c.email) /\ Given(office.id)
    BY <2>2, <2>3 DEF Acceptable, OfficeFor
  <2>5. OfRow(c).complete = (Given(c.name) /\ Given(c.email)) /\ OfRow(c).office = IsMapped(c.workplace)
    BY DEF OfRow
  <2> QED
    BY <2>4, <2>5, OfficeId
<1>2. HandoverInv => RejectedAsDomain
  <2> SUFFICES ASSUME HandoverInv, NEW result \in run.results
               PROVE  result.verdict \in Answers <=>
                        /\ OfRow(run.taken[result.eid]).complete
                        /\ OfRow(run.taken[result.eid]).office
                        /\ OfficeName(run.taken[result.eid].workplace) \in DOMAIN run.refdata
                        /\ Given(run.refdata[OfficeName(run.taken[result.eid].workplace)])
    BY DEF RejectedAsDomain
  <2>1. result.verdict \in Answers <=> Acceptable(run.taken[result.eid], run.refdata, run.now)
    BY ResultOfTaken
  <2> QED
    BY <1>1, <2>1
<1> QED
  BY <1>2, HandoverInvHolds, PTL

=============================================================================
