------------------------------ MODULE MCStorage ------------------------------
(***************************************************************************)
(* Small disks: rooms, unknown sections, and files that are cut or damaged. *)
(***************************************************************************)
EXTENDS Storage, TLC

MCNumeral == <<"1", "2", "3", "4", "5", "6", "7", "8">>
MCCapital == "b" :> "B" @@ "o" :> "O"

b == <<"b">>
bo == <<"b", "o">>
MCNames == {b, bo}

Hall == [actor_init_internal EXCEPT
    !.id = 1, !.location_id = 0, !.dead = FALSE, !.name = <<"hall">>,
    !.description = <<"dark", "\n", "#", "cold", ":", "wet">>,
    !.room = [NoExits EXCEPT
        ![1] = [to_room |-> 2, closed |-> FALSE, keyword |-> NULL],
        ![6] = [to_room |-> 1, closed |-> TRUE, keyword |-> <<"stone", " ", "door">>]]]

Yard == [actor_init_internal EXCEPT
    !.id = 2, !.location_id = 0, !.dead = FALSE, !.name = <<"yard">>, !.long_name = <<"the", " ", "yard">>,
    !.room = NoExits]

\* A room in another one.
Shed == [Yard EXCEPT !.location_id = 1]

ByBob == [tag |-> "note", fields |-> <<[tag |-> "by", value |-> <<"bob">>]>>, inner |-> <<>>]
Nested == [tag |-> "zone", fields |-> <<>>, inner |-> NoteText(ByBob)]

Section(before, room, inside, blank) ==
    [before |-> before, room |-> room, inside |-> inside, blank |-> blank]

NoFiles == [n \in MCNames |-> NULL]
Written(parts) ==
    [rooms |-> IF parts = <<>> THEN NULL ELSE RoomsText(parts), parts |-> parts, sound |-> TRUE,
     account |-> NULL, pcs |-> NoFiles]

\* Text that the server would not write.
Damaged(text) ==
    [rooms |-> text, parts |-> <<>>, sound |-> FALSE, account |-> NULL, pcs |-> NoFiles]

JustHall == <<Section(NULL, Hall, NULL, <<>>)>>

SoundDisks ==
    { Written(<<>>), Written(<<Section(NULL, Yard, NULL, <<>>)>>),
      Written(<<Section(NULL, Hall, NULL, <<>>), Section(NULL, Shed, NULL, <<>>)>>) } \cup
    { Written(<<Section(top, Hall, inside, blank), Section(NULL, Yard, NULL, <<>>)>>) :
        top \in {NULL, ByBob}, inside \in {NULL, ByBob}, blank \in {<<>>, <<"\n">>} }

\* A section that begins behind the line "#room".
InRoom(text) == <<"#", "room", "\n">> \o text

DamagedDisks ==
    { Damaged(text) : text \in {
        InRoom(<<"dead", "~">>),
        InRoom(<<"id", ":", "none", "~">>),
        InRoom(<<"id", ":", "1", "~", "location_id", ":", "2", "~", "#", "end", " ", "room">>),
        InRoom(<<"#", "room", "\n", "#", "exit", " ", "away", "~">>),
        InRoom(<<"#", "end", " ", "hall", "\n", "dead", ":", "no", "~">>),
        InRoom(<<"#", "room", "\n", "#", "end", " ", "hall", "\n">>),
        InRoom(<<"#", "end", " ", "room", "\n", "#", "note", "\n">>) } }

\* An account and a character that were written by hand.
HandWritten(text) ==
    [Written(JustHall) EXCEPT
        !.sound = FALSE,
        !.account = account_save([username |-> <<"ann">>, password_hash |-> <<"x">>,
                                  character_names |-> b \o <<" ">> \o bo]) \o <<"#", "character", "\n">>,
        !.pcs[b] = text]

MCDisks ==
    SoundDisks \cup DamagedDisks \cup
    { HandWritten(text) : text \in {
        <<"location_id", ":", "1", "~", "#", "end", " ", "b", "\n">>,
        <<"location_id", ":", "1", "~">> } }

NestedDisks == { Written(<<Section(Nested, Hall, NULL, <<>>)>>) }
=============================================================================
