----------------------------- MODULE MCHandover -----------------------------
(***************************************************************************)
(* A small instance of Handover for TLC: rows that differ in every field a *)
(* rule reads, office lists with an office, without it and with an office  *)
(* that has no id, and a run that may cross the end of a year.             *)
(***************************************************************************)
EXTENDS Handover, TLC

CONSTANTS c1, c2

Written(word) == [word |-> word, tidy |-> FALSE]

\* No start date; every field needs its conversion.
Vip ==
  [workflow |-> "Mobility", relocation |-> "Yes", support |-> {Written("relocation"), Plain("n/a")},
   name |-> Plain("ana"), email |-> Written("ana@live"), workplace |-> Written("uae"),
   dealer |-> Plain("n/a"), vip |-> TRUE, start |-> NoDate, home |-> Blank,
   current |-> Plain("serbia"), phone |-> Written("international"),
   gender |-> Plain("female"), title |-> Plain("host")]

\* A dealer with a start date, an unanswered gender, a home country of blanks.
Dealer ==
  [Vip EXCEPT !.workplace = Plain("serbia live casino"), !.dealer = Plain("presenter"),
              !.email = Plain("amy@live"),
              !.start = [year |-> 2026, month |-> 12, day |-> 15], !.home = Written(""),
              !.gender = Plain("undefined"), !.phone = Plain("national"), !.vip = FALSE]

Nameless  == [Vip EXCEPT !.email = Written(""), !.vip = FALSE]
Moved     == [Vip EXCEPT !.workflow = "Other"]
Elsewhere == [Vip EXCEPT !.workplace = Plain("atlantis")]
NoOption  == [Dealer EXCEPT !.support = {Plain("n/a")}]

SomeRows == {Vip, Dealer, Nameless, Elsewhere, NoOption, Moved, EmptyRow}

Both      == ("UAE (Live Casino)" :> Plain("a")) @@ ("Serbia (Live Casino)" :> Plain("b"))
NoUae     == "Serbia (Live Casino)" :> Plain("b")
UaeNoId   == ("UAE (Live Casino)" :> Blank) @@ ("Serbia (Live Casino)" :> Plain("b"))
Lists == {Both, NoUae, UaeNoId}

\* The candidates are alike.
Alike == Permutations(Candidates)

November == [year |-> 2026, month |-> 11]

=============================================================================
