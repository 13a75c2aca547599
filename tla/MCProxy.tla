------------------------------ MODULE MCProxy ------------------------------
(***************************************************************************)
(* Proxy for TLC: words of two bytes, rings of sixteen bytes and of two    *)
(* descriptors, and scripts of a few messages for the two peers.           *)
(***************************************************************************)
EXTENDS Proxy

Message(name, sig) == [name |-> name, sig |-> sig]

MCMethods == [i \in 0..5 |->
    << Message("get_toplevel", <<"n">>), Message("set_fullscreen", <<"o">>),
       Message("create_pool", <<"n", "h", "u">>), Message("set_title", <<"s">>),
       Message("accept", <<"u", "?s">>), Message("commit", << >>) >>[i + 1]]

MCEvents == [i \in 0..6 |->
    << Message("configure", <<"u", "u", "a">>), Message("mode", <<"u", "u", "u">>),
       Message("keymap", <<"u", "h", "u">>), Message("enter", <<"u", "a">>),
       Message("done", << >>), Message("global", <<"u", "s", "u">>),
       Message("format", <<"u">>) >>[i + 1]]

Send(id, op, args) == [id |-> id, op |-> op, args |-> args]
Profile(requests, events, room, chunk, close) ==
    [send |-> [client |-> requests, server |-> events], room |-> room,
     chunk |-> chunk, close |-> close]

Toplevel == Send(3, 0, <<4>>)
Fullscreen == Send(4, 1, <<5>>)
Pool(file) == Send(6, 2, <<7, file, 9>>)
Title == Send(4, 3, <<Text(3, 1)>>)
NoType == Send(5, 4, <<8, Text(0, 0)>>)
Commit == Send(3, 5, << >>)
Configure == Send(4, 0, <<9, 9, Text(2, 1)>>)
Mode == Send(5, 1, <<1, 9, 9>>)
Keymap(file) == Send(6, 2, <<1, file, 2>>)
Enter == Send(6, 3, <<1, Text(0, 0)>>)
Done == Send(5, 4, << >>)
Global(name) == Send(2, 5, <<name, Text(3, name), 1>>)
Format(format) == Send(7, 6, <<format>>)

\* Sizes: roomy sockets, both directions.
Sizes == Profile(<<Toplevel, Fullscreen, Commit>>, <<Configure, Mode>>, 24, 7, FALSE)
\* Files, more than one sendmsg takes, through sockets that fill up.
Files == Profile(<<Pool(11), Pool(12), Pool(13), Pool(14), Pool(15), Pool(16)>>, << >>, 24, 24, FALSE)
\* Files both ways, and peers that vanish.
Vanish == Profile(<<Pool(11), Commit>>, <<Keymap(21)>>, 16, 16, TRUE)
\* Strings, NULL and not, and an empty array; the rings grow.
Strings == Profile(<<Title, NoType, Title, Commit>>, <<Enter>>, 40, 40, FALSE)

\* What the compositor offers, supported and not.
Offers == Profile(<<Commit>>, <<Global(1), Global(2), Format(1), Format(5), Done>>, 40, 40, FALSE)

MCProfiles == <<Sizes, Files, Vanish, Strings, Offers>>
=============================================================================
