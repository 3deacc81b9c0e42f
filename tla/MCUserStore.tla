---------------------------- MODULE MCUserStore ----------------------------
(* Two programs in one directory, and stickers that look like the file; one *)
(* of Reopening closes its own and opens another.                           *)
EXTENDS UserStore

MCNicks == {<<"Ann">>}
MCNames == {"tag", "end"}
MCTextOf == [tag |-> <<Open, "end">>, end |-> <<"=", Close, "=">>]
Reopening == [tag |-> <<Close, Open>>, end |-> <<"=">>]
Symmetry == Permutations(Programs)
=============================================================================
