----------------------------- MODULE MCScanner -----------------------------
(* Documents of a few elements: each profile varies what one pass of the   *)
(* scanner depends on.                                                     *)
EXTENDS Scanner

\* Two names of which one begins the other, a number, and one that is no name.
A == "a"
AB == "ab"
ONE == "1"
EMPTY == ""

MCIdentifiers == {A, AB, "destroy", "wl_display"}
MCTrailingParts == {ONE}
MCBeginnings == {<<A, AB>>}

Max0 == [el \in Elements \union {"text"} |-> 0]
Names(s) == {[name |-> n] : n \in s}
Interfaces(names, versions) == [name : names, version : versions]
Methods(names, sinces, deprecated) ==
    [name : names, since : sinces, deprecated : deprecated, destructor : {FALSE}]
Arg(type, interface, nullable) ==
    [name |-> A, type |-> type, interface |-> interface, nullable |-> nullable,
     enumeration |-> NONE]

Plain == [el \in Elements |->
    CASE el = "protocol"  -> Names({A})
      [] el = "copyright" -> Names({NONE})
      [] el = "description" -> [summary : {A}]
      [] el = "interface" -> Interfaces({A, AB}, {1})
      [] el \in {"request", "event"} -> Methods({A}, {ABSENT}, {ABSENT})
      [] el = "arg"   -> {Arg("uint", NONE, NONE)}
      [] el = "enum"  -> [name : {A}, bitfield : {NONE}]
      [] el = "entry" -> [name : {A}, since : {ABSENT}, deprecated : {ABSENT}]]

\* Nesting: everything may have a description.
Texts(mode) ==
    [mode |-> mode, atts |-> Plain,
     max |-> [Max0 EXCEPT !["protocol"] = 1, !["copyright"] = 1, !["description"] = 2,
                          !["interface"] = 1, !["request"] = 1, !["enum"] = 1,
                          !["entry"] = 1, !["text"] = 2]]

\* Arguments: up to n, in a request and an event, or two, of one or two
\* interfaces.
Args(mode, args, n) ==
    [mode |-> mode, atts |-> [Plain EXCEPT !["arg"] = args],
     max |-> [Max0 EXCEPT !["protocol"] = 1, !["interface"] = 2, !["request"] = 1,
                          !["event"] = 1, !["arg"] = n]]

Objects == {Arg("object", AB, "true"), Arg("object", NONE, NONE), Arg("new_id", A, NONE),
            Arg("new_id", NONE, NONE), Arg("int", NONE, NONE)}
Refusable == {Arg("uint", A, NONE), Arg("string", NONE, "true"), Arg("fd", NONE, "true"),
              Arg("string", NONE, "yes"), Arg("object", ONE, NONE), Arg("real", NONE, NONE),
              Arg("array", NONE, NONE), Arg("fixed", NONE, NONE), Arg("fd", NONE, NONE)}

\* Names and values that are missing or wrong, in every element.
Wrong(mode) ==
    [mode |-> mode,
     atts |-> [el \in Elements |->
        CASE el = "protocol" -> Names({NONE, A, ONE})
          [] el = "copyright" -> Names({NONE})
          [] el = "description" -> [summary : {NONE, A}]
          [] el = "interface" -> Interfaces({NONE, A, EMPTY}, {1})
          [] el \in {"request", "event"} -> Methods({NONE, A, ONE}, {ABSENT}, {ABSENT})
          [] el = "arg" -> {[Arg("int", NONE, NONE) EXCEPT !.name = n] : n \in {NONE, A, ONE}}
          [] el = "enum" -> [name : {NONE, A, ONE}, bitfield : {NONE, "false", "yes"}]
          [] el = "entry" -> [name : {NONE, ONE, EMPTY}, since : {ABSENT}, deprecated : {ABSENT}]],
     max |-> [Max0 EXCEPT !["protocol"] = 1, !["description"] = 1, !["interface"] = 1,
                          !["request"] = 1, !["event"] = 1, !["arg"] = 1, !["enum"] = 1,
                          !["entry"] = 1]]

\* The display, whose events have no wrappers.
Display ==
    [Args("server-header", {Arg("object", NONE, NONE)}, 2) EXCEPT
        !.atts["interface"] = Interfaces({"wl_display", A}, {1})]

\* Versions and names.
Versions(mode) ==
    [mode |-> mode,
     atts |-> [Plain EXCEPT
        !["protocol"] = Names({A}),
        !["interface"] = Interfaces({A}, {ABSENT, 0, 2, 12}),
        !["request"] = [name : {A, "destroy"}, since : {ABSENT, -1, 0, 2, 12}, deprecated : {ABSENT, 2, 3},
                        destructor : BOOLEAN],
        !["entry"] = [name : {ONE}, since : {ABSENT, 2, 3}, deprecated : {ABSENT, -1, 2}]],
     max |-> [Max0 EXCEPT !["protocol"] = 1, !["interface"] = 1, !["request"] = 1, !["arg"] = 1,
                          !["enum"] = 1, !["entry"] = 1]]

\* Enumerations and the arguments that stand for them.
Enums ==
    [mode |-> "enum-header",
     atts |-> [Plain EXCEPT
        !["arg"] = [name : {A}, type : {"int", "uint", "string"}, interface : {NONE},
                    nullable : {NONE}, enumeration : [interface : {NONE, A, AB}, name : {A}]],
        !["enum"] = [name : {A}, bitfield : {"false", "true"}],
        !["entry"] = [name : {A}, since : {ABSENT}, deprecated : {ABSENT}]],
     max |-> [Max0 EXCEPT !["protocol"] = 1, !["interface"] = 2, !["request"] = 1, !["arg"] = 1,
                          !["enum"] = 2, !["entry"] = 2]]

MCProfiles ==
    {Texts("public-code"), Enums, Wrong("enum-header"), Display, Versions("client-header"), Versions("public-code")}
    \union {Args(m, Objects, 3) : m \in {"public-code", "client-header", "server-header"}}
    \union {Args("public-code", Refusable, 2)}
=============================================================================
