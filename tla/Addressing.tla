----------------------------- MODULE Addressing -----------------------------
(***************************************************************************)
(* How host names decide things: which event a page is about               *)
(* (useEventContext.ts), where its API is (api.ts), and whether the        *)
(* gateway lets a page of another origin read its answers                  *)
(* (middleware.go, CORS).                                                  *)
(*                                                                         *)
(* A text is a sequence of fragments, of which ".", "*" and the schemes    *)
(* are the ones that the code looks for; two fragments side by side are    *)
(* one word, so that <<"not", "cyberorch">> ends like <<"cyberorch">>.     *)
(***************************************************************************)
EXTENDS Integers, FiniteSets, Sequences, SequencesExt, FiniteSetsExt

NoSlug == <<>>

Localhost == <<"localhost">>

Dots(host) == {i \in DOMAIN host : host[i] = "."}

(* host.split('.')[0]                                                      *)
FirstPart(host) ==
  IF Dots(host) = {} THEN host ELSE SubSeq(host, 1, Min(Dots(host)) - 1)

(* host.split('.').slice(-2).join('.')                                     *)
RootDomain(host) ==
  IF Cardinality(Dots(host)) < 2 THEN host
  ELSE SubSeq(host, Max(Dots(host) \ {Max(Dots(host))}) + 1, Len(host))

ReservedSubdomains ==
  {<<"api">>, <<"desktop">>, <<"staging">>, <<"www">>, <<"admin">>,
   <<"grafana">>, <<"monitoring">>}

(* Variant: the root domain counts as an event.                            *)
SlugOfAnyHost(host, query) ==
  CASE host = Localhost -> query
    [] FirstPart(host) \in ReservedSubdomains -> NoSlug
    [] OTHER -> FirstPart(host)

(* The slug of the event that a page at this host is about; query is the   *)
(* parameter ?event=, which counts in local development only.              *)
EventSlug(host, query) ==
  CASE host = Localhost -> query
    [] Cardinality(Dots(host)) < 2 \/ FirstPart(host) \in ReservedSubdomains -> NoSlug
    [] OTHER -> FirstPart(host)

(* The origin of the API that a page calls.                                *)
ApiOrigin(scheme, host, port) ==
  IF host = Localhost THEN <<scheme>> \o host \o port
  ELSE <<scheme, "api", ".">> \o RootDomain(host)

----------------------------------------------------------------------------
(* The configuration deployed: cors-origins of the gateway's ConfigMap.    *)
Apex == <<"cyberorch", ".", "com">>
AllowedOrigins ==
  {<<"https://">> \o Apex, <<"https://", "*", ".">> \o Apex}

Star(pattern) == CHOOSE i \in DOMAIN pattern : pattern[i] = "*"

(* Variant: the suffix begins one character too late.                      *)
MatchesWithoutDot(pattern, origin) ==
  LET prefix == SubSeq(pattern, 1, Star(pattern) - 1)
      suffix == SubSeq(pattern, Star(pattern) + 2, Len(pattern))
      mid    == SubSeq(origin, Len(prefix) + 1, Len(origin) - Len(suffix))
  IN  /\ IsPrefix(prefix, origin) /\ IsSuffix(suffix, origin)
      /\ mid # <<>> /\ ~Contains(mid, "/")

(* A pattern with a star matches an origin that has something without a    *)
(* slash in the place of the star.                                         *)
Matches(pattern, origin) ==
  LET prefix == SubSeq(pattern, 1, Star(pattern) - 1)
      suffix == SubSeq(pattern, Star(pattern) + 1, Len(pattern))
      mid    == SubSeq(origin, Len(prefix) + 1, Len(origin) - Len(suffix))
  IN  /\ IsPrefix(prefix, origin) /\ IsSuffix(suffix, origin)
      /\ mid # <<>> /\ ~Contains(mid, "/")

(* matchOrigin: an exact origin, or one that a pattern matches.            *)
MatchOrigin(origin) ==
  \E o \in AllowedOrigins :
    IF Contains(o, "*") THEN Matches(o, origin) ELSE o = origin
=============================================================================
