---------------------------- MODULE MCListWatch ----------------------------
(***************************************************************************)
(* A small instance of ListWatch.                                          *)
(***************************************************************************)
EXTENDS ListWatch

Body(s, l, fin) == [spec |-> s, status |-> s, label |-> l, finalizers |-> fin]

MCBodies == {Body("a", TRUE, {}), Body("b", FALSE, {"f"})}

\* One takes a deletion back, one renames the object.
MCPatches == {[body |-> Body("b", FALSE, {"f"}), name |-> {}, deletion |-> {0}],
              [body |-> Body("a", TRUE, {}), name |-> {2}, deletion |-> {}]}

MCKeyOf(o) == o.name
MCIndexKeys(o) == {o.label}

MCObjects ==
    [key : Names, name : Names, uid : 1 .. MaxRv, resource_version : 1 .. MaxRv,
     generation : 1 .. MaxRv, deletion : 0 .. MaxRv, spec : {"a", "b"},
     status : {"a", "b"}, label : BOOLEAN, finalizers : {{}, {"f"}}]

=============================================================================
