----------------------------- MODULE MCTimeUtil -----------------------------
(* Values of the constants of TimeUtil for TLC. *)
EXTENDS TimeUtil

EveryMonthHas == {1, 2, 15, 27, 28}

AnyDay == 1 .. 31

AnyWeekday == 0 .. 6

EachUnit == {<<"month", 0>>, <<"month", 15>>, <<"month", 31>>, <<"year", 3>>,
             <<"day", 0>>, <<"day", 18>>, <<"hour", 30>>}

EachTime == {<<0, 0>>, <<0, 30>>, <<18, 1>>}

=============================================================================
