-------------------------------- MODULE Url --------------------------------
(***************************************************************************)
(* common/url.cpp and common/sub_string.cpp: a URL is cut into its parts by*)
(* one pass over its delimiters, an iteration of the loop of Url::parse a  *)
(* step. A part is a SubString: where it begins and ends in m_url.         *)
(*                                                                         *)
(* Offsets count from 0, as in the code; the character at offset i is      *)
(* m_url[i + 1].                                                           *)
(***************************************************************************)
EXTENDS Integers, Sequences

CONSTANTS
  Characters,                           \* strings of one character
  Protos, Users, Hosts, Ports, Tails,   \* what URLs are made of
  Parses                                \* bound: calls of set on one object

Digits == {"0", "1", "2", "3", "4", "5", "6", "7", "8", "9"}
Delimiters == {":", "/", "@"}

Texts == Seq(Characters)
IsName(s) == s \in Texts \ {<<>>} /\ \A i \in 1 .. Len(s) : s[i] \notin Delimiters

ASSUME ParsesAssumption == Parses \in Nat

(* Any part may be missing but the host; who has a login has a password. A *)
(* tail begins with its slash and goes on with anything.                   *)
ASSUME PartsAssumption ==
  /\ Delimiters \subseteq Characters
  /\ \A proto \in Protos : proto # <<>> => IsName(proto)
  /\ Users \subseteq [login : Texts, pass : Texts]
  /\ \A user \in Users : IsName(user.login) /\ IsName(user.pass)
  /\ \A host \in Hosts : IsName(host)
  /\ \A port \in Ports : port \in Texts /\ \A i \in 1 .. Len(port) : port[i] \in Digits
  /\ \A tail \in Tails : tail \in Texts /\ (tail # <<>> => tail[1] = "/")

VARIABLES
  given,       \* the parts of the URL set was called with
  m_url,
  m,           \* m_proto, m_login, m_pass, m_host, m_port and m_tail
  offset,
  m_valid,
  at,          \* "ready", "parsing" or, when an assertion failed, "aborted"
  parses       \* history: how often set was called

urlVars == <<given, m_url, m, offset, m_valid, at, parses>>

NoUser == [login |-> <<>>, pass |-> <<>>]
URLs == [proto : Protos, user : Users \cup {NoUser}, host : Hosts, port : Ports, tail : Tails]

(* The text of a URL: [proto://][login:pass@]host[:port][/tail]. *)
Before(part, mark) == IF part = <<>> THEN <<>> ELSE part \o mark
After(mark, part) == IF part = <<>> THEN <<>> ELSE mark \o part
Text(u) ==
  Before(u.proto, <<":", "/", "/">>)
    \o (IF u.user = NoUser THEN <<>> ELSE u.user.login \o <<":">> \o u.user.pass \o <<"@">>)
    \o u.host \o After(<<":">>, u.port) \o u.tail

-----------------------------------------------------------------------------
(* SubString and the searches of std::string *)

npos == -1

(* SubString::set; its assertion fails if the result is not Proper.        *)
SubString(begin, end) == [begin |-> begin, end |-> IF end = 0 THEN begin ELSE end]
Proper(part) == part.begin <= part.end
IsSet(part) == part.begin < part.end

(* SubString::str stops at the end of the source. *)
str(part) ==
  SubSeq(m_url, part.begin + 1, IF part.end > Len(m_url) THEN Len(m_url) ELSE part.end)

Offsets == 0 .. Len(m_url) - 1

First(S) == IF S = {} THEN npos ELSE CHOOSE i \in S : \A j \in S : i <= j
Last(S) == IF S = {} THEN npos ELSE CHOOSE i \in S : \A j \in S : j <= i

find_first_of(C, from) == First({i \in Offsets : i >= from /\ m_url[i + 1] \in C})
find_first_not_of(C, from) == First({i \in Offsets : i >= from /\ m_url[i + 1] \notin C})
rfind(c, from) == Last({i \in Offsets : i <= from /\ m_url[i + 1] = c})
IsProtoMark(i) == i + 2 < Len(m_url) /\ SubSeq(m_url, i + 1, i + 3) = <<":", "/", "/">>
find_proto_mark == First({i \in Offsets : IsProtoMark(i)})

-----------------------------------------------------------------------------
PartNames == {"proto", "login", "pass", "host", "port", "tail"}
NoParts == [p \in PartNames |-> [begin |-> 0, end |-> 0]]

Beyond == Len(m_url) + 1     \* npos where an end is wanted: past everything

UrlTypeOK ==
  /\ given \in URLs
  /\ m_url \in Texts
  /\ m \in [PartNames -> [begin : Nat, end : Nat]]
  /\ offset \in 0 .. Len(m_url)
  /\ m_valid \in BOOLEAN
  /\ at \in {"ready", "parsing", "aborted"}
  /\ parses \in 0 .. Parses

UrlInit ==
  /\ given \in URLs
  /\ m_url = <<>>
  /\ m = NoParts
  /\ offset = 0
  /\ m_valid = FALSE
  /\ at = "ready"
  /\ parses = 0

(* Url::set: the parts of an earlier URL stay. *)
set(u) ==
  /\ at = "ready"
  /\ parses < Parses
  /\ parses = 0 => u = given
  /\ given' = u
  /\ m_url' = Append(Text(u), "/")
  /\ offset' = 0
  /\ m_valid' = FALSE
  /\ at' = "parsing"
  /\ parses' = parses + 1
  /\ UNCHANGED m

-----------------------------------------------------------------------------
(* A definition under "Mistake" is the next one with a slip of the kind a  *)
(* programmer makes; no action uses it. It shows what the properties see.  *)

(* Mistake: the user is taken for a part of the host. *)
HostBeginAfterProto(parts, i) == IF IsSet(parts.proto) THEN find_proto_mark + 3 ELSE 0
HostBegin(parts, i) ==
  IF IsSet(parts.pass) THEN rfind("@", i - 1) + 1
  ELSE IF IsSet(parts.proto) THEN find_proto_mark + 3
  ELSE 0

HostEnd(parts, i) ==
  IF ~IsSet(parts.port) THEN i
  ELSE LET colon == rfind(":", i) IN IF colon = npos THEN Beyond ELSE colon

fill_host(parts, i) == [parts EXCEPT !.host = SubString(HostBegin(parts, i), HostEnd(parts, i))]

PortEnd(i) == find_first_not_of(Digits, i + 1)

Found == find_first_of(Delimiters, offset)
At(c) == at = "parsing" /\ m_url[Found + 1] = c

IsProto == ~IsSet(m.proto) /\ IsProtoMark(Found)

(* Mistake: any digit after a colon makes it a port. *)
IsPortByDigit == ~IsSet(m.port) /\ PortEnd(Found) - Found > 1
IsPort == ~IsSet(m.port) /\ m_url[PortEnd(Found) + 1] = "/" /\ PortEnd(Found) - Found > 1

Slash == rfind("/", Found)
IsLogin == ~IsSet(m.login) /\ (Slash # npos => m_url[Slash] = "/")

IsPass == ~IsSet(m.pass) /\ IsSet(m.login)

PastDelimiter(i) == i + 1

(* The rest of an iteration, unless the assertion in SubString::set fails. *)
Continue(parts, next) ==
  /\ m' = parts
  /\ offset' = next
  /\ at' = IF \A p \in DOMAIN parts : Proper(parts[p]) THEN "parsing" ELSE "aborted"
  /\ UNCHANGED <<given, m_url, m_valid, parses>>

fill_proto == At(":") /\ IsProto /\ Continue([m EXCEPT !.proto = SubString(0, Found)], Found + 3)

fill_port ==
  /\ At(":") /\ ~IsProto /\ IsPort
  /\ LET port == SubString(Found + 1, PortEnd(Found))
     IN Continue(fill_host([m EXCEPT !.port = port], PortEnd(Found)), PortEnd(Found))

fill_login ==
  /\ At(":") /\ ~IsProto /\ ~IsPort /\ IsLogin
  /\ LET begin == IF Slash = npos THEN 0 ELSE Slash + 1
     IN Continue([m EXCEPT !.login = SubString(begin, Found)], PastDelimiter(Found))

fill_pass ==
  /\ At("@") /\ IsPass
  /\ LET begin == rfind(":", Found - 1) + 1
     IN Continue([m EXCEPT !.pass = SubString(begin, Found)], PastDelimiter(Found))

TailEnd == Len(m_url)

(* The first slash that belongs to no "://" ends the parse. *)
fill_tail ==
  /\ At("/")
  /\ LET parts == [fill_host(m, Found) EXCEPT !.tail = SubString(Found + 1, TailEnd)]
         proper == \A p \in DOMAIN parts : Proper(parts[p])
     IN /\ m' = parts
        /\ at' = IF proper THEN "ready" ELSE "aborted"
        /\ m_valid' = proper
  /\ offset' = Found
  /\ UNCHANGED <<given, m_url, parses>>

(* assert(false): nothing fits the delimiter. *)
parse_fails ==
  /\ \/ At(":") /\ ~IsProto /\ ~IsPort /\ ~IsLogin
     \/ At("@") /\ ~IsPass
  /\ at' = "aborted"
  /\ UNCHANGED <<given, m_url, m, offset, m_valid, parses>>

UrlNext ==
  \/ \E u \in URLs : set(u)
  \/ fill_proto \/ fill_port \/ fill_login \/ fill_pass \/ fill_tail
  \/ parse_fails

UrlSpec == UrlInit /\ [][UrlNext]_urlVars

-----------------------------------------------------------------------------
(* A new Url cuts every URL into the parts it was made of, delimiters in   *)
(* the tail, numeric hosts and numeric passwords included. The tail comes  *)
(* without its first slash and with the one that parse appends.            *)
PartsAreFound ==
  m_valid /\ parses = 1 =>
    /\ str(m.proto) = given.proto
    /\ [login |-> str(m.login), pass |-> str(m.pass)] = given.user
    /\ str(m.host) = given.host
    /\ str(m.port) = given.port
    /\ str(m.tail) = IF given.tail = <<>> THEN <<>> ELSE Append(Tail(given.tail), "/")

(* Only an object that is used again fails an assertion: set does not      *)
(* clear the parts, and those of the last URL decide how the next is cut.  *)
AbortsOnlyOnReuse == at = "aborted" => parses > 1
=============================================================================
