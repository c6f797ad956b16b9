------------------------- MODULE MCServiceRegistry -------------------------
(***************************************************************************)
(* Two services, two systems, two URIs and two interfaces.  Ids in         *)
(* management requests are those of the first rows.                        *)
(***************************************************************************)
EXTENDS ServiceRegistry

Provider1 == [name |-> "s1", addr |-> "a1"]
Provider2 == [name |-> "s2", addr |-> "a1"]

Register(d, s, u, is) ==
    [kind |-> "register", service |-> d, system |-> s, uri |-> u, interfaces |-> is]

Registrations ==
    {Register(d, s, u, <<"i1">>) : d \in {"d1", "d2"}, s \in {Provider1, Provider2}, u \in Uris}
      \cup {Register("d1", Provider2, "u2", is) : is \in {<<"i2">>, <<"i1", "i2">>}}

Unregistrations ==
    {[kind |-> "unregister", service |-> "d1", system |-> s] : s \in {Provider1, Provider2}}

Queries == {[kind |-> "query", service |-> "d1", required |-> is] : is \in {{}, {"i2"}}}

Management ==
    {[kind |-> "delete", table |-> t, id |-> 1] : t \in {Definition, System, Entry}}
      \cup {[kind |-> k, table |-> Definition, id |-> 1, row |-> [name |-> "d2"]]
              : k \in {"put", "patch"}}
      \cup {[kind |-> k, table |-> System, id |-> 1, row |-> [name |-> "s2", addr |-> "a2"]]
              : k \in {"put", "patch"}}
      \cup {[kind |-> "patch", table |-> Definition, id |-> 1, row |-> [name |-> Absent]],
            [kind |-> "patch", table |-> System, id |-> 1,
             row |-> [name |-> Absent, addr |-> "a2"]],
            [kind |-> "patch", table |-> System, id |-> 1,
             row |-> [name |-> "s2", addr |-> Absent]]}
      \cup {[kind |-> "post_services", service |-> "d2", interfaces |-> <<>>],
            [kind |-> "post_systems", system |-> [name |-> "s1", addr |-> "a2"],
             interfaces |-> <<>>]}

MCRequests == Registrations \cup Unregistrations \cup Queries \cup Management
                \cup {[kind |-> "malformed"]}
=============================================================================
