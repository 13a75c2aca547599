------------------------------- MODULE WlMap -------------------------------
(***************************************************************************)
(* The object map of the patched libwayland (libs/wayland/src/             *)
(* wayland-util.c, struct wl_map): two growing arrays, one for the ids the *)
(* client chooses and one for those the server chooses.                    *)
(*                                                                         *)
(* Removing an object threads its entry on a free list, whose tagged link  *)
(* wl_map_lookup and wl_map_for_each take for no object at all; here the   *)
(* entry becomes NULL.  Only wl_map_insert_new takes entries from that     *)
(* list, and the proxy calls it on new maps alone, so the order of the     *)
(* list is left out.                                                       *)
(***************************************************************************)
EXTENDS Integers, Sequences

\* The first id of the server's range: 0xff000000 in the code.
CONSTANT WL_SERVER_ID_START

wl_array_add(entries, data) == Append(entries, data)

wl_map_init(side) == [side |-> side, client |-> << >>, server |-> << >>]

\* The array that holds id i, and the position of i in it, from 1.
SideOf(i) == IF i < WL_SERVER_ID_START THEN "client" ELSE "server"
PosOf(i) == IF i < WL_SERVER_ID_START THEN i + 1 ELSE i - WL_SERVER_ID_START + 1

wl_map_lookup(m, i, null) ==
    LET a == m[SideOf(i)] IN IF PosOf(i) <= Len(a) THEN a[PosOf(i)] ELSE null

\* Only the next id or one already seen can be inserted.
CanInsertAt(m, i) == PosOf(i) <= Len(m[SideOf(i)]) + 1

wl_map_insert_at(m, i, data) ==
    IF PosOf(i) = Len(m[SideOf(i)]) + 1
    THEN [m EXCEPT ![SideOf(i)] = wl_array_add(@, data)]
    ELSE [m EXCEPT ![SideOf(i)][PosOf(i)] = data]

\* On a map nothing was removed from: the side's next id.
wl_map_insert_new(m, data) == [m EXCEPT ![m.side] = wl_array_add(@, data)]

\* Makes room for an object the other side is creating; an id of the map's
\* own side, a gap and an id in use are refused and leave the map alone.
wl_map_reserve_new(m, i, null) ==
    IF SideOf(i) # m.side /\ PosOf(i) = Len(m[SideOf(i)]) + 1
    THEN [m EXCEPT ![SideOf(i)] = wl_array_add(@, null)]
    ELSE m

\* An id of the other side is left in the map.
wl_map_remove(m, i, null) ==
    IF SideOf(i) = m.side THEN [m EXCEPT ![SideOf(i)][PosOf(i)] = null] ELSE m
=============================================================================
