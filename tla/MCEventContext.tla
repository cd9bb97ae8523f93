--------------------------- MODULE MCEventContext ---------------------------
(* An instance of EventContext for TLC.  No symmetry, as liveness is       *)
(* checked.                                                                *)
EXTENDS EventContext

MCWords == STRING

MCSlugs == {<<"ctf">>, <<"spring">>}

(* Local development, the platform's hosts, and hosts that are not.        *)
Hosts ==
  {Localhost, Apex, <<"not">> \o Apex, <<"org">>}
    \cup {<<sub, ".">> \o Apex : sub \in {"ctf", "www", "staging"}}
    \cup {<<"ctf", ".", "spring", ".">> \o Apex,
          <<"ctf", ".", "not">> \o Apex,
          <<"ctf", ".">> \o Apex \o <<".", "org">>}

MCPages ==
  [scheme : {"https://", "http://"}, host : Hosts, port : {<<>>, <<":8443">>}]
=============================================================================
