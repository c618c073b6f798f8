------------------------------- MODULE Payload -------------------------------
(***************************************************************************)
(* The pure rules that turn one candidate row into what Benivo is sent:    *)
(* the office, the population, the start date, the home country, the       *)
(* phone and the gender, the create-user and Case payloads built from      *)
(* them, and the three places that judge a payload (the gate of the        *)
(* posting, the workbook's payload_ready and the validation script).       *)
(*                                                                         *)
(* Domain knows a row by what the stages decide on it; this module keeps   *)
(* the fields those decisions are computed from.  One name stands for the  *)
(* first and the last name, which are treated alike throughout.            *)
(***************************************************************************)
EXTENDS Domain

(***************************************************************************)
(* A text as Jobvite holds it: the word that is left once it is stripped,  *)
(* lowered and its inner blanks are collapsed (the lookups), and whether   *)
(* it was stored in that form.  Python tests the truth of the stored text, *)
(* so one made of blanks alone is present although it has no word.         *)
(***************************************************************************)
Plain(word) == [word |-> word, tidy |-> TRUE]
Blank == Plain("")
Given(text) == text # Blank
Normal(text) == text.word

NoDate == [year |-> 0, month |-> 0, day |-> 0]

(***************************************************************************)
(* Offices: the reviewed mapping of workplaces, then the live reference    *)
(* data, which lists offices by name with an id; no office is guessed.     *)
(***************************************************************************)
WorkplaceToOfficeName ==
  [workplace \in {"rak live casino", "uae", "serbia live casino", "colombia live casino",
                 "bulgaria live casino", "romania live casino", "malta", "latvia"}
     |-> CASE workplace \in {"rak live casino", "uae"} -> "UAE (Live Casino)"
           [] workplace = "serbia live casino"         -> "Serbia (Live Casino)"
           [] workplace = "colombia live casino"       -> "Colombia (Live Casino)"
           [] workplace = "bulgaria live casino"       -> "Bulgaria (Live Casino)"
           [] workplace = "romania live casino"        -> "Romania (Live Casino)"
           [] workplace = "malta"                      -> "Malta (Global)"
           [] workplace = "latvia"                     -> "Latvia (Global)"]

IsMapped(workplace) == Normal(workplace) \in DOMAIN WorkplaceToOfficeName
OfficeName(workplace) == WorkplaceToOfficeName[Normal(workplace)]

\* refdata maps the name of each listed office to its id, which may be blank.
IsListed(workplace, refdata) == IsMapped(workplace) /\ OfficeName(workplace) \in DOMAIN refdata

NoOffice == [found |-> FALSE, id |-> Blank, name |-> Blank]

ResolveOffice(workplace, refdata) ==
  IF IsListed(workplace, refdata)
  THEN [found |-> TRUE, id |-> refdata[OfficeName(workplace)], name |-> Plain(OfficeName(workplace))]
  ELSE NoOffice

(***************************************************************************)
(* Population: the dealer_shuffler selector, then VIP.                     *)
(***************************************************************************)
NotARealCatalogValue == {"n/a", "na", "none", "not applicable"}
ValidPopulationValues == {"Game Presenters and Shufflers", "Tier 1", "Tier 3"}

Population(dealer, vip) ==
  IF Normal(dealer) \notin NotARealCatalogValue \cup {""} THEN "Game Presenters and Shufflers"
  ELSE IF vip THEN "Tier 1"
  ELSE "Tier 3"

\* Mutant: the tier of a VIP has no value of the API's, as src/README.md:157-164 has it.
PopulationApiValue_VipBlocked(population) ==
  IF population \in ValidPopulationValues \ {"Tier 1"} THEN Plain(population) ELSE Blank

PopulationApiValue(population) ==
  IF population \in ValidPopulationValues THEN Plain(population) ELSE Blank

(***************************************************************************)
(* Start date: Jobvite's, or the first day of the third month from now.    *)
(***************************************************************************)
StartDateOffsetMonths == 3

\* Mutant: the months of a year counted from one.
FirstDayOfNthMonthAfter_FromOne(now, n) ==
  LET total == now.month + n
  IN [year |-> now.year + total \div 12, month |-> (total % 12) + 1, day |-> 1]

FirstDayOfNthMonthAfter(now, n) ==
  LET total == now.month - 1 + n
  IN [year |-> now.year + total \div 12, month |-> (total % 12) + 1, day |-> 1]

EffectiveStartDate(start, now) ==
  IF start # NoDate THEN start ELSE FirstDayOfNthMonthAfter(now, StartDateOffsetMonths)

(***************************************************************************)
(* Home country, with the fallback; phone and gender, sent when confirmed. *)
(* A phone's word is the shape of the number once spaces, hyphens and      *)
(* parentheses are dropped.  Of the confirmed countries two stand for all. *)
(***************************************************************************)
CountryNameToIso2 ==
  [country \in {"serbia", "united arab emirates", "uae"} |-> IF country = "serbia" THEN "RS" ELSE "AE"]

Iso2(country) ==
  IF Normal(country) \in DOMAIN CountryNameToIso2 THEN Plain(CountryNameToIso2[Normal(country)]) ELSE Blank

EffectiveHomeCountry(c) == IF Given(c.home) THEN c.home ELSE c.current

PhoneNumber(phone) ==
  IF Normal(phone) = "international" THEN Plain("international") ELSE Blank

Gender(gender) ==
  CASE Normal(gender) = "male" -> Plain("Male")
    [] Normal(gender) = "female" -> Plain("Female")
    [] OTHER -> Blank

(***************************************************************************)
(* The payloads.  A key that is left out is Blank.                         *)
(***************************************************************************)
BuildBenivoPayload(c, office, startDate) ==
  [name        |-> c.name,
   email       |-> c.email,
   policy      |-> PopulationApiValue(Population(c.dealer, c.vip)),
   officeId    |-> office.id,
   officeName  |-> office.name,
   startDate   |-> startDate,
   homeCountry |-> EffectiveHomeCountry(c),
   phoneNumber |-> PhoneNumber(c.phone),
   gender      |-> Gender(c.gender)]

BuildCaseUpdatePayload(c) ==
  [hostJobRole |-> c.title, homeLocation |-> Iso2(EffectiveHomeCountry(c))]

(***************************************************************************)
(* What a dry run shows of a payload: the email by its first character and *)
(* its domain.  A text without an "@" stays as it is; of those with one    *)
(* three addresses stand for all, two of which look alike when masked.     *)
(***************************************************************************)
MaskedAddress ==
  [address \in {"ana@live", "amy@live", "eva@live"} |->
     IF address = "eva@live" THEN "e***@live" ELSE "a***@live"]

MaskEmail(email) ==
  IF Normal(email) \in DOMAIN MaskedAddress
  THEN [email EXCEPT !.word = MaskedAddress[Normal(email)]] ELSE email

SanitizePayload(p) == [p EXCEPT !.email = MaskEmail(p.email)]

ValidatePayload(p) ==
  /\ Given(p.name)
  /\ Given(p.email)
  /\ Given(p.policy)
  /\ Given(p.officeId)
  /\ p.startDate # NoDate

\* Mutant: the workbook forgets the email.
PayloadReady_NoEmail(p, case) ==
  /\ Given(p.name) /\ Given(p.policy) /\ Given(p.officeId) /\ p.startDate # NoDate
  /\ Given(p.homeCountry) /\ Given(p.officeName)
  /\ Given(case.hostJobRole) /\ Given(case.homeLocation)

\* payload_ready of the Payload Preview, which asks for more than the gate.
PayloadReady(p, case) ==
  /\ Given(p.name) /\ Given(p.email) /\ Given(p.policy) /\ Given(p.officeId) /\ p.startDate # NoDate
  /\ Given(p.homeCountry) /\ Given(p.officeName)
  /\ Given(case.hostJobRole) /\ Given(case.homeLocation)

(***************************************************************************)
(* classify() on the fields themselves.  support is the set of options the *)
(* live mobility_support field is split into.                              *)
(***************************************************************************)
QualifyingOptions == {"relocation", "visa/work permit", "accommodation"}

MobilitySupportQualifies(support) == \E option \in support : Normal(option) \in QualifyingOptions

\* Mutant: a missing Jobvite date still blocks, as src/README.md:111 has it.
ClassifyFields_JobviteDate(c, support, now) ==
  IF c.workflow # "Mobility" THEN "NO_LONGER_ELIGIBLE"
  ELSE IF c.relocation # "Yes" THEN "NEEDS_RECRUITER_REVIEW"
  ELSE IF ~MobilitySupportQualifies(support) THEN "EXCLUDED_MOBILITY_SUPPORT"
  ELSE IF c.start = NoDate THEN "PENDING_MISSING_START_DATE"
  ELSE IF ~IsMapped(c.workplace) THEN "PENDING_OFFICE_MAPPING"
  ELSE "READY_TO_POST"

ClassifyFields(c, support, now) ==
  IF c.workflow # "Mobility" THEN "NO_LONGER_ELIGIBLE"
  ELSE IF c.relocation # "Yes" THEN "NEEDS_RECRUITER_REVIEW"
  ELSE IF ~MobilitySupportQualifies(support) THEN "EXCLUDED_MOBILITY_SUPPORT"
  ELSE IF EffectiveStartDate(c.start, now) = NoDate THEN "PENDING_MISSING_START_DATE"
  ELSE IF ~IsMapped(c.workplace) THEN "PENDING_OFFICE_MAPPING"
  ELSE "READY_TO_POST"

=============================================================================
