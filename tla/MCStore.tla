------------------------------- MODULE MCStore -------------------------------
(* Three requests on a store with one seed game.                            *)
EXTENDS Store

CONSTANTS alice, bob, seed, game, made, invalid

Op(kind, item) == [kind |-> kind, item |-> item]

MCScripts ==
    {<<Op("bootstrap", alice), Op("register", alice), Op("bootstrap", bob)>>,
     <<Op("account", bob), Op("register", bob), Op("delete", seed)>>,
     <<Op("claim", game), Op("create", made), Op("claim", game)>>,
     <<Op("delete", seed), Op("claim", game), Op("delete", game)>>,
     <<Op("claim", game), Op("delete", game), Op("claim", game)>>}

MCItems == {alice, bob, seed, game, made}
MCSeed == <<seed>>

\* A new server; one with an account; one whose file was edited by hand.
MCFiles == {Absent, Whole(<<bob>>, <<seed>>), Whole(<<invalid>>, <<seed>>)}
=============================================================================
