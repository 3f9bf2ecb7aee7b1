------------------------------- MODULE MCDemo -------------------------------
(* A disk that filled up: looking at it is a read, cleaning it is proposed. *)
(* The cleaning may be asked for in two spellings of one call.              *)
EXTENDS Demo

MCCallOf == [q \in {"look", "clean", "clean it"} |-> IF q = "look" THEN "look" ELSE "clean"]
MCOperationOf == [c \in {"look", "clean"} |-> c]

\* The recording holds two runs of the read; the first, clean one answers.
\* The cleaning was recorded once.
MCRecorded == <<[call |-> "clean", clean |-> TRUE], [call |-> "look", clean |-> TRUE],
                [call |-> "look", clean |-> FALSE]>>

\* At a terminal the first run reads twice or proposes one call in two
\* spellings before it answers; the second cleans, or writes calls no tool
\* takes, in the only turn it has.  In the demo both clean at once, one
\* looking first.
MCAsks == [r \in Run, demo \in BOOLEAN |->
    IF demo THEN IF r = 1 THEN <<{<<"look", "clean">>}, {}>> ELSE <<{<<"clean">>}>>
    ELSE IF r = 1 THEN <<{<<"look", "look">>, <<"clean", "clean it">>}, {}>>
    ELSE <<{<<"clean">>, <<"refused", "broken">>}>>]

MCMaxTurns == [r \in Run |-> IF r = 1 THEN 2 ELSE 1]

MCAddressOf == [r \in Run |-> r]
=============================================================================
