------------------------------ MODULE Scanner ------------------------------
(***************************************************************************)
(* wayland-scanner (stratusd/libs/wayland/src/scanner.c), which the build  *)
(* runs on the protocol files to get the tables that the proxy parses      *)
(* messages with: the callbacks of the XML parser build a tree, main then  *)
(* writes code or a header from it and frees it.                           *)
(*                                                                         *)
(* The XML parser is external: it reports the elements of a document of    *)
(* the shape the protocol files have.  What is written is kept as tables,  *)
(* without the C around them.  An allocation is a number in heap; strings  *)
(* belong to the structure that points to them.  A name is a value of which *)
(* only validity, equality and, for find_enumeration, beginnings count.    *)
(***************************************************************************)
EXTENDS Integers, FiniteSets, SequencesExt

CONSTANTS
    Profiles,       \* documents: [mode, max, atts]; see Init
    Identifiers,    \* the names that are C identifiers
    TrailingParts,  \* the names that are the end of one only: they begin with a digit
    Beginnings,     \* pairs of identifiers: the first is how the second begins
    CHARACTER_DATA, \* pieces of text that character_data holds: 8192 bytes
    NONE            \* NULL, or an attribute that is not given

VARIABLES
    pc,      \* "parse", "emit", "done", or "failed" after fail()
    ctx,     \* struct parse_context
    p,       \* struct protocol
    heap,    \* the allocations that are not freed
    out,     \* what is written
    open,    \* the open elements of the document, [el, id, kids]
    used,    \* element -> how many the document has
    doc      \* its profile

vars == <<pc, ctx, p, heap, out, open, used, doc>>

ABSENT == -2            \* a number that is not given
ArgTypes == {"new_id", "int", "uint", "fixed", "string", "object", "array", "fd"}
Elements == {"protocol", "copyright", "description", "interface", "request", "event",
             "arg", "enum", "entry"}

-----------------------------------------------------------------------------
(* The tree.  A pointer of ctx is to the last element of a list, or unset. *)

\* A name that is in neither set is empty or has other characters.
validate_identifier(str, role) ==
    str \in Identifiers \/ (role = "trailing" /\ str \in TrailingParts)

BeginsWith(str, start) == str = start \/ <<start, str>> \in Beginnings

\* set_arg_type takes the eight names only.
is_nullable_type(a) == a.type \in {"string", "object"}

create_interface(id, att) ==
    [id |-> id, name |-> att.name, version |-> att.version, since |-> 1,
     request |-> << >>, event |-> << >>, enums |-> << >>, desc |-> NONE]

create_message(id, att) ==
    [id |-> id, name |-> att.name, args |-> << >>, new_ids |-> 0, since |-> 0,
     deprecated |-> 0, destructor |-> att.destructor, desc |-> NONE]

create_arg(id, att) ==
    [id |-> id, type |-> att.type, interface |-> att.interface,
     nullable |-> att.nullable = "true", enumeration |-> att.enumeration]

create_enumeration(id, att) ==
    [id |-> id, name |-> att.name, bitfield |-> att.bitfield = "true", since |-> 1,
     entries |-> << >>, desc |-> NONE]

create_entry(id, att) ==
    [id |-> id, name |-> att.name, since |-> 0, deprecated |-> 0, desc |-> NONE]

\* What each of these frees.
free_description(d) == IF d = NONE THEN {} ELSE {d.id}
free_message(m) ==
    {m.id} \union free_description(m.desc) \union {a.id : a \in ToSet(m.args)}
free_entry(e) == {e.id} \union free_description(e.desc)

free_enumeration(e) ==
    {e.id} \union free_description(e.desc)
           \union UNION {free_entry(x) : x \in ToSet(e.entries)}
free_interface(i) ==
    {i.id} \union free_description(i.desc)
           \union UNION {free_message(m) : m \in ToSet(i.request \o i.event)}
           \union UNION {free_enumeration(e) : e \in ToSet(i.enums)}
free_protocol == free_description(p.desc)

\* What the pointers of ctx lead to ...
CurInterface == Last(p.interfaces)
CurMessage == Last(CurInterface[ctx.message])
CurEnumeration == Last(CurInterface.enums)
CurEntry == Last(CurEnumeration.entries)

\* ... and the tree in which it has changed.
WithLast(s, x) == [s EXCEPT ![Len(s)] = x]
InInterface(i) == [p EXCEPT !.interfaces = WithLast(@, i)]
InMessage(m) == InInterface([CurInterface EXCEPT ![ctx.message] = WithLast(@, m)])
InEnumeration(e) == InInterface([CurInterface EXCEPT !.enums = WithLast(@, e)])
InEntry(e) == InEnumeration([CurEnumeration EXCEPT !.entries = WithLast(@, e)])

-----------------------------------------------------------------------------
(* start_element.                                                          *)

\* since and deprecated-since, -1 when strtouint refuses the number.
version_from_since(att) == IF att.since = ABSENT THEN 1 ELSE att.since
version_from_deprecated_since(att) == IF att.deprecated = ABSENT THEN 0 ELSE att.deprecated

VersionsValid(att) ==
    LET version == CurInterface.version
        since == version_from_since(att)
        deprecated == version_from_deprecated_since(att) IN
    /\ since \in 0 .. version
    /\ deprecated \in 0 .. version
    /\ deprecated > 0 => deprecated > since

DestroyRefused(att) == att.name = "destroy" /\ ~att.destructor

\* The name is missing, or is none.
NameRefused(att, role) == att.name = NONE \/ ~validate_identifier(att.name, role)

\* What makes the element an error.
Refused(el, att) ==
    CASE el = "protocol"  -> NameRefused(att, "standalone")
      [] el = "copyright" -> FALSE
      [] el = "interface" ->
            NameRefused(att, "standalone") \/ att.version \in {ABSENT, -1, 0}
      [] el \in {"request", "event"} ->
            NameRefused(att, "standalone") \/ ~VersionsValid(att) \/ DestroyRefused(att)
      [] el = "arg" ->
            \/ NameRefused(att, "standalone")
            \/ att.type \notin ArgTypes
            \/ att.type \notin {"new_id", "object"} /\ att.interface # NONE
            \/ att.interface # NONE /\ ~validate_identifier(att.interface, "standalone")
            \/ att.nullable # NONE /\ att.nullable \notin {"true", "false"}
            \/ att.nullable # NONE /\ ~is_nullable_type(att)
      [] el = "enum" ->
            NameRefused(att, "trailing") \/ att.bitfield \notin {NONE, "false", "true"}
      [] el = "entry" -> NameRefused(att, "trailing") \/ ~VersionsValid(att)
      [] el = "description" -> att.summary = NONE

\* Mutant: the entry is not looked at before the enumeration.
OwnerWithoutEntry ==
    CASE ctx.message # NONE -> "message"
      [] ctx.message = NONE /\ ctx.enumeration -> "enumeration"
      [] ctx.message = NONE /\ ~ctx.enumeration /\ ctx.interface -> "interface"
      [] ctx.message = NONE /\ ~ctx.enumeration /\ ~ctx.interface -> "protocol"

\* The structure a description goes to.
DescriptionOwner ==
    IF ctx.message # NONE THEN "message"
    ELSE IF ctx.entry THEN "entry"
    ELSE IF ctx.enumeration THEN "enumeration"
    ELSE IF ctx.interface THEN "interface"
    ELSE "protocol"

Owner(owner) ==
    CASE owner = "message"     -> CurMessage
      [] owner = "entry"       -> CurEntry
      [] owner = "enumeration" -> CurEnumeration
      [] owner = "interface"   -> CurInterface
      [] owner = "protocol"    -> p

InOwner(owner, o) ==
    CASE owner = "message"     -> InMessage(o)
      [] owner = "entry"       -> InEntry(o)
      [] owner = "enumeration" -> InEnumeration(o)
      [] owner = "interface"   -> InInterface(o)
      [] owner = "protocol"    -> o

\* The tree and the pointers after an element that is no error.
Added(el, att, id) ==
    LET since == version_from_since(att)
        deprecated == version_from_deprecated_since(att) IN
    CASE el = "protocol" -> [p EXCEPT !.name = att.name]
      [] el = "copyright" -> p
      [] el = "interface" -> [p EXCEPT !.interfaces = Append(@, create_interface(id, att))]
      [] el \in {"request", "event"} ->
            InInterface([CurInterface EXCEPT !.since = since, ![el] = Append(@,
                [create_message(id, att) EXCEPT !.since = since, !.deprecated = deprecated])])
      [] el = "arg" ->
            InMessage([CurMessage EXCEPT !.args = Append(@, create_arg(id, att)),
                                         !.new_ids = IF att.type = "new_id" THEN @ + 1 ELSE @])
      [] el = "enum" ->
            InInterface([CurInterface EXCEPT !.enums = Append(@, create_enumeration(id, att))])
      [] el = "entry" ->
            InEnumeration([CurEnumeration EXCEPT !.since = since, !.entries = Append(@,
                [create_entry(id, att) EXCEPT !.since = since, !.deprecated = deprecated])])
      [] el = "description" ->
            InOwner(DescriptionOwner, [Owner(DescriptionOwner) EXCEPT !.desc =
                [id |-> id, of |-> Last(open).id, text |-> NONE]])

start_element(el, att, id) ==
    IF Refused(el, att)
    THEN pc' = "failed" /\ UNCHANGED <<ctx, p, heap>>
    ELSE /\ p' = Added(el, att, id)
         /\ heap' = IF el \in {"protocol", "copyright"} THEN heap ELSE heap \union {id}
         /\ ctx' = [ctx EXCEPT !.chars = << >>,
                      !.interface = @ \/ el = "interface",
                      !.message = IF el \in {"request", "event"} THEN el ELSE @,
                      !.enumeration = @ \/ el = "enum",
                      !.entry = @ \/ el = "entry",
                      !.description = IF el = "description" THEN DescriptionOwner ELSE @]
         /\ UNCHANGED pc

-----------------------------------------------------------------------------
(* end_element and character_data.                                         *)

\* All interfaces whose names begin with the part before the dot are looked
\* at, in their order, or the argument's own without one.
find_enumeration(interface, ref) ==
    LET from == IF ref.interface = NONE THEN <<interface>>
                ELSE SelectSeq(p.interfaces, LAMBDA i : BeginsWith(i.name, ref.interface))
        found == SelectSeq(FlattenSeq([k \in DOMAIN from |-> from[k].enums]),
                           LAMBDA e : e.name = ref.name) IN
    IF found = << >> THEN NONE ELSE Head(found)

verify_arguments(interface, messages) ==
    \A m \in ToSet(messages) : \A a \in ToSet(m.args) :
        a.enumeration # NONE =>
            \/ a.type = "uint"
            \/ /\ a.type = "int"
               /\ LET e == find_enumeration(interface, a.enumeration) IN
                  e # NONE => ~e.bitfield

\* An enumeration without entries, or arguments that do not verify.
Unfinished(el) ==
    \/ /\ el = "enum"
       /\ CurEnumeration.entries = << >>
    \/ /\ el = "protocol"
       /\ \E i \in ToSet(p.interfaces) :
            ~(verify_arguments(i, i.request) /\ verify_arguments(i, i.event))

end_element(el) ==
    /\ pc' = IF Unfinished(el) THEN "failed" ELSE IF el = "protocol" THEN "emit" ELSE pc
    /\ p' = IF el = "description"
            THEN InOwner(ctx.description, [Owner(ctx.description) EXCEPT !.desc.text = ctx.chars])
            ELSE IF el = "copyright" THEN [p EXCEPT !.copyright = ctx.chars] ELSE p
    /\ ctx' = [ctx EXCEPT !.message = IF el \in {"request", "event"} THEN NONE ELSE @,
                          !.enumeration = @ /\ el # "enum",
                          !.entry = @ /\ el # "entry",
                          !.description = IF el = "description" THEN NONE ELSE @]
    /\ UNCHANGED heap

character_data(piece) ==
    IF Len(ctx.chars) + 1 > CHARACTER_DATA
    THEN pc' = "failed" /\ UNCHANGED <<ctx, p, heap>>
    ELSE ctx' = [ctx EXCEPT !.chars = Append(@, piece)] /\ UNCHANGED <<pc, p, heap>>

-----------------------------------------------------------------------------
(* The tables of emit_code.                                                *)

Messages == FlattenSeq([k \in DOMAIN p.interfaces |->
                          p.interfaces[k].request \o p.interfaces[k].event])

\* emit_types_forward_declarations.
all_null(m) == \A a \in ToSet(m.args) : a.interface = NONE
null_run_length == Max({0} \union {Len(m.args) : m \in {x \in ToSet(Messages) : all_null(x)}})
TypesNamed ==
    {a.interface : a \in UNION {ToSet(m.args) : m \in ToSet(Messages)}} \ {NONE}

\* Mutant: only the arguments that have an interface take a place.
TypesOfTyped(m) ==
    IF all_null(m) THEN << >>
    ELSE SelectSeq([k \in DOMAIN m.args |-> m.args[k].interface], LAMBDA i : i # NONE)

\* The places of a message in the table of types...
emit_types(m) ==
    IF all_null(m) THEN << >> ELSE [k \in DOMAIN m.args |-> m.args[k].interface]

\* ... and where they begin.
type_index(n) ==
    IF all_null(Messages[n]) THEN 0
    ELSE null_run_length
         + Len(FlattenSeq([k \in 1 .. n - 1 |->
                  IF all_null(Messages[k]) THEN << >> ELSE Messages[k].args]))

TypesTable ==
    [k \in 1 .. null_run_length |-> NONE]
    \o FlattenSeq([n \in DOMAIN Messages |-> emit_types(Messages[n])])

Digits == <<"0", "1", "2", "3", "4", "5", "6", "7", "8", "9">>
RECURSIVE Decimal(_)
Decimal(n) ==
    IF n < 10 THEN <<Digits[n + 1]>>
    ELSE Append(Decimal(n \div 10), Digits[(n % 10) + 1])

Letter == [new_id |-> "n", int |-> "i", uint |-> "u", fixed |-> "f", string |-> "s",
           object |-> "o", array |-> "a", fd |-> "h"]

\* emit_messages.  An object of any interface is sent with the interface's
\* name and version before it.
Symbols(a) ==
    (IF is_nullable_type(a) /\ a.nullable THEN <<"?">> ELSE << >>)
    \o (IF a.type = "new_id" /\ a.interface = NONE THEN <<"s", "u">> ELSE << >>)
    \o <<Letter[a.type]>>

Signature(m) ==
    (IF m.since > 1 THEN Decimal(m.since) ELSE << >>)
    \o FlattenSeq([k \in DOMAIN m.args |-> Symbols(m.args[k])])

\* Mutant: an interface is freed before its name is read.
ListThenFreeSwapped(done, i) ==
    LET live == done.live \ free_interface(i) IN
    [names |-> Append(done.names, IF i.id \in live THEN i.name ELSE NONE), live |-> live]

\* One interface of types_all: its name is read, out of what is live, and it is
\* freed.  NONE stands for what a freed structure holds.
ListThenFree(done, i) ==
    [names |-> Append(done.names, IF i.id \in done.live THEN i.name ELSE NONE),
     live |-> done.live \ free_interface(i)]

emit_code ==
    LET all == FoldLeft(ListThenFree, [names |-> << >>, live |-> heap], p.interfaces) IN
    /\ out' = [out EXCEPT
          !.types = TypesTable,
          !.messages = [n \in DOMAIN Messages |->
              [signature |-> Signature(Messages[n]), index |-> type_index(n)]],
          !.types_all = all.names,
          !.declared = TypesNamed]
    /\ heap' = all.live \ free_protocol

\* connection.c's reading of a signature, which skips the version.
get_next_argument(signature, k) ==
    LET ends == {j \in k .. Len(signature) : signature[j] \in {Letter[t] : t \in ArgTypes}} IN
    IF ends = {} THEN [type |-> NONE, nullable |-> FALSE, next |-> Len(signature) + 1]
    ELSE [type |-> signature[Min(ends)], next |-> Min(ends) + 1,
          nullable |-> \E j \in k .. Min(ends) : signature[j] = "?"]

arg_count_for_signature(signature) ==
    Len(SelectSeq(signature, LAMBDA c : c \in {Letter[t] : t \in ArgTypes}))

RECURSIVE ReadFrom(_, _)
ReadFrom(signature, k) ==
    LET a == get_next_argument(signature, k) IN
    IF a.type = NONE THEN << >>
    ELSE <<[type |-> a.type, nullable |-> a.nullable]>> \o ReadFrom(signature, a.next)

-----------------------------------------------------------------------------
(* The functions of emit_header.                                           *)

\* What a stub hands to wl_proxy_marshal_flags, and a server's request
\* handler is called with.
Expanded(a) ==
    IF a.type = "new_id" /\ a.interface = NONE THEN <<"s", "u", "n">> ELSE <<Letter[a.type]>>

\* The names of structures in a prototype, NONE where a null pointer is
\* printed for one.
emit_type(a) == IF a.type = "object" THEN {a.interface} ELSE {}

\* Mutant: the numbers begin with one.
OpcodesFromOne(list) == [m \in {x.name : x \in ToSet(list)} |->
                            CHOOSE k \in DOMAIN list : list[k].name = m]

\* The numbers the macros of a list of messages have.
emit_opcodes(list) == [m \in {x.name : x \in ToSet(list)} |->
                          (CHOOSE k \in DOMAIN list : list[k].name = m) - 1]

\* No stub is written for a request that makes two objects.
emit_stubs(i) ==
    LET some == SelectSeq(i.request, LAMBDA m : m.new_ids <= 1) IN
    [n \in DOMAIN some |->
        [of |-> some[n].id, opcode |-> emit_opcodes(i.request)[some[n].name],
         args |-> FlattenSeq([k \in DOMAIN some[n].args |-> Expanded(some[n].args[k])]),
         names |-> {i.name} \union
                   UNION {IF a.type = "new_id" THEN {a.interface} \ {NONE} ELSE emit_type(a) :
                            a \in ToSet(some[n].args)}]]

\* Stubs cannot be written when a destroy request is no destructor.
StubsRefused(i) ==
    /\ \E m \in ToSet(i.request) : m.name = "destroy"
    /\ \A m \in ToSet(i.request) : ~m.destructor

\* The handlers: of requests for a server, of events for a client.
emit_structs(i, side) ==
    LET list == IF side = "server" THEN i.request ELSE i.event IN
    [n \in DOMAIN list |->
        [of |-> list[n].id, opcode |-> n - 1,
         args |-> FlattenSeq([k \in DOMAIN list[n].args |->
                     IF side = "server" THEN Expanded(list[n].args[k])
                     ELSE <<Letter[list[n].args[k].type]>>]),
         names |-> IF side = "server" THEN {}
                   ELSE {i.name} \union
                        UNION {CASE a.type = "object" -> {a.interface} \ {NONE}
                                 [] a.type = "new_id" -> {a.interface}
                                 [] a.type \notin {"object", "new_id"} -> {} :
                                 a \in ToSet(list[n].args)}]]

\* The ones of wl_display are written by hand.
emit_event_wrappers(i) ==
    IF i.name = "wl_display" THEN << >>
    ELSE [n \in DOMAIN i.event |->
        [of |-> i.event[n].id, opcode |-> emit_opcodes(i.event)[i.event[n].name],
         args |-> [k \in DOMAIN i.event[n].args |-> Letter[i.event[n].args[k].type]],
         names |-> {}]]

DeclaredInHeader == TypesNamed \union {i.name : i \in ToSet(p.interfaces)}

emit_header(side) ==
    LET of(i) == IF side = "server" THEN emit_structs(i, side) \o emit_event_wrappers(i)
                 ELSE emit_structs(i, side) \o emit_stubs(i) IN
    /\ out' = [out EXCEPT
          !.declared = DeclaredInHeader,
          !.functions = FlattenSeq([k \in DOMAIN p.interfaces |-> of(p.interfaces[k])])]
    /\ heap' = heap \ (UNION {free_interface(i) : i \in ToSet(p.interfaces)} \union free_protocol)

emit_enum_header ==
    /\ heap' = heap \ (UNION {free_interface(i) : i \in ToSet(p.interfaces)} \union free_protocol)
    /\ UNCHANGED out

\* main after the document's end.
Emit ==
    /\ pc = "emit"
    /\ IF doc.mode = "client-header" /\ \E i \in ToSet(p.interfaces) : StubsRefused(i)
       THEN pc' = "broken" /\ UNCHANGED <<heap, out>>
       ELSE /\ pc' = "done"
            /\ CASE doc.mode = "public-code"   -> emit_code
                 [] doc.mode = "client-header" -> emit_header("client")
                 [] doc.mode = "server-header" -> emit_header("server")
                 [] doc.mode = "enum-header"   -> emit_enum_header
    /\ UNCHANGED <<ctx, p, open, used, doc>>

-----------------------------------------------------------------------------
(* The documents: elements nest as in the protocol files, descriptions come *)
(* first, and the members of a list have different names.                   *)

Children(el) ==
    CASE el = "document"  -> {"protocol"}
      [] el = "protocol"  -> {"copyright", "description", "interface"}
      [] el = "interface" -> {"description", "request", "event", "enum"}
      [] el \in {"request", "event"} -> {"description", "arg"}
      [] el = "enum"      -> {"description", "entry"}
      [] el = "entry"     -> {"description"}
      [] el \in {"copyright", "description", "arg"} -> {}

Siblings(el) ==
    CASE el = "interface" -> ToSet(p.interfaces)
      [] el \in {"request", "event"} -> ToSet(CurInterface[el])
      [] el = "enum"  -> ToSet(CurInterface.enums)
      [] el = "entry" -> ToSet(CurEnumeration.entries)
      [] el \in {"protocol", "copyright", "description", "arg"} -> {}

NextId == FoldFunction(LAMBDA x, y : x + y, 1, used)

StartElement(el) ==
    /\ pc = "parse" /\ used[el] < doc.max[el]
    /\ el \in Children(Last(open).el)
    /\ el \in {"copyright", "description"} =>
          Last(open).kids \subseteq {"copyright"} \ {el}
    /\ \E att \in doc.atts[el] :
          /\ \A x \in Siblings(el) : x.name # att.name
          /\ start_element(el, att, NextId)
    /\ open' = Append(WithLast(open, [Last(open) EXCEPT !.kids = @ \union {el}]),
                      [el |-> el, id |-> NextId, kids |-> {}])
    /\ used' = [used EXCEPT ![el] = @ + 1]
    /\ UNCHANGED <<out, doc>>

EndElement ==
    /\ pc = "parse" /\ Len(open) > 1
    /\ end_element(Last(open).el)
    /\ open' = Front(open)
    /\ UNCHANGED <<out, used, doc>>

Text ==
    /\ pc = "parse" /\ Len(open) > 1 /\ used["text"] < doc.max["text"]
    /\ character_data(Last(open).id)
    /\ used' = [used EXCEPT !["text"] = @ + 1]
    /\ UNCHANGED <<out, open, doc>>

\* A profile has main's mode, how many of each element and pieces of text a
\* document has at most, and the attributes they may have.
Init ==
    /\ doc \in Profiles
    /\ pc = "parse"
    /\ ctx = [interface |-> FALSE, message |-> NONE, enumeration |-> FALSE, entry |-> FALSE,
              description |-> NONE, chars |-> << >>]
    /\ p = [id |-> 1, name |-> NONE, copyright |-> NONE, desc |-> NONE, interfaces |-> << >>]
    /\ heap = {}
    /\ out = [types |-> << >>, messages |-> << >>, types_all |-> << >>, declared |-> {},
              functions |-> << >>]
    /\ open = <<[el |-> "document", id |-> 0, kids |-> {}]>>
    /\ used = [el \in Elements \union {"text"} |-> 0]

Next == (\E el \in Elements : StartElement(el)) \/ EndElement \/ Text \/ Emit

Spec == Init /\ [][Next]_vars

-----------------------------------------------------------------------------
(* Properties.                                                             *)

\* Types; a pointer of the context that is set leads to a structure.
TypeOK ==
    /\ pc \in {"parse", "emit", "done", "failed", "broken"}
    /\ Len(ctx.chars) <= CHARACTER_DATA
    /\ ctx.interface = (p.interfaces # << >>)
    /\ ctx.message # NONE => CurInterface[ctx.message] # << >>
    /\ ctx.enumeration => CurInterface.enums # << >>
    /\ ctx.entry => ctx.enumeration /\ CurEnumeration.entries # << >>

Described ==
    {p} \union ToSet(p.interfaces)
    \union ToSet(Messages)
    \union UNION {ToSet(i.enums) : i \in ToSet(p.interfaces)}
    \union UNION {UNION {ToSet(e.entries) : e \in ToSet(i.enums)} : i \in ToSet(p.interfaces)}

\* A description belongs to the element it stands in, although the pointers
\* of start_element know of no nesting (TypeOK says what they lead to), and
\* its text is its own.  A program that main started to write is complete, as
\* what only emit_stubs refuses was refused by start_element before, and
\* everything allocated for the tree is freed when main returns, in every mode
\* (free_interface and below).
TreeIntact ==
    /\ TypeOK
    /\ pc # "broken"
    /\ pc = "done" => heap = {}
    /\ \A x \in Described :
          x.desc # NONE =>
              /\ x.desc.of = x.id
              /\ x.desc.text # NONE => ToSet(x.desc.text) \subseteq {x.desc.id}

Written(mode) == pc = "done" /\ doc.mode \in mode

\* The signature of message n reads back as its arguments.
ReadsBack(n) ==
    LET sig == out.messages[n].signature
        args == FlattenSeq([k \in DOMAIN Messages[n].args |->
            LET a == Messages[n].args[k] IN
            [j \in DOMAIN Expanded(a) |-> [type |-> Expanded(a)[j], nullable |-> a.nullable]]]) IN
    /\ ReadFrom(sig, 1) = args
    /\ arg_count_for_signature(sig) = Len(args)

UntypedNewId(m) == \E a \in ToSet(m.args) : a.type = "new_id" /\ a.interface = NONE

\* The interfaces of the arguments that a signature has.
SignatureInterfaces(m) ==
    FlattenSeq([k \in DOMAIN m.args |-> [j \in DOMAIN Expanded(m.args[k]) |->
        IF j = Len(Expanded(m.args[k])) THEN m.args[k].interface ELSE NONE]])

\* connection.c reads from a signature the arguments that emit_messages wrote,
\* with their nullability, behind whatever version.  The entry of the table for
\* an argument of a signature is the argument's interface, and is in the table,
\* in whatever order messages with and without interfaces come; a message with
\* an untyped new_id has three arguments for it and one place, and reads past
\* its places.  types_all, which the proxy looks interfaces up in, has them
\* all, by names that were not freed when they were read.
TypesAligned ==
    Written({"public-code"}) =>
        /\ \A n \in DOMAIN Messages :
              LET interfaces == SignatureInterfaces(Messages[n])
                  index == out.messages[n].index IN
              /\ ReadsBack(n)
              /\ \/ UntypedNewId(Messages[n])
                 \/ \A k \in DOMAIN interfaces :
                       index + k <= Len(out.types) /\ out.types[index + k] = interfaces[k]
        /\ out.types_all = [k \in DOMAIN p.interfaces |-> p.interfaces[k].name]

\* A header declares the structures that the prototype of f names.  For an
\* untyped object of a request, and an untyped new_id of an event, a client's
\* prototype has the text of a null pointer instead of a name.
Declared(f) ==
    f.names \subseteq out.declared
        \union {NONE : m \in {x \in ToSet(Messages) : x.id = f.of /\
                   \E a \in ToSet(x.args) : a.interface = NONE /\ a.type \in {"object", "new_id"}}}

\* A stub or a handler of a request agrees with the request's signature in
\* the arguments, and with its place in the table in the opcode.  The ones of
\* an event do if it has no untyped new_id.  A header declares every structure
\* that a prototype in it names.
FunctionsMatchTables ==
    /\ \A f \in ToSet(out.functions) : Declared(f)
    /\ Written({"client-header", "server-header"}) => \A f \in ToSet(out.functions) :
        \E i \in ToSet(p.interfaces) : \E list \in {i.request, i.event} :
            \E n \in DOMAIN list :
                /\ list[n].id = f.of /\ f.opcode = n - 1
                /\ \/ f.args = [k \in DOMAIN ReadFrom(Signature(list[n]), 1) |->
                                   ReadFrom(Signature(list[n]), 1)[k].type]
                   \/ list = i.event /\ UntypedNewId(list[n])
=============================================================================
