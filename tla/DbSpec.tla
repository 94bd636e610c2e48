---------------------------------- MODULE DbSpec ----------------------------------
(***************************************************************************)
(* What the redis backend of db.rs makes of the value of -X: redis_url()   *)
(* and urlencode().  A text is a sequence of characters, as in Cli; the    *)
(* two digits of a percent code, "redis" and a default are one each.       *)
(***************************************************************************)
EXTENDS Naturals, FiniteSets, FiniteSetsExt, SequencesExt

Scheme == <<"redis", ":", "/", "/">>
Port == <<"6379">>
Db == <<"0">>

\* The characters that mean something in a URL, and their codes.
Hex == [c \in {",", ":", "/", "@", "%", " "} |->
            CASE c = "," -> "2C" [] c = ":" -> "3A" [] c = "/" -> "2F"
              [] c = "@" -> "40" [] c = "%" -> "25" [] c = " " -> "20"]

\* Mutant of urlencode: the percent sign, which announces a code, is not encoded.
UrlencodeNotPercent(s) ==
  FlattenSeq([i \in DOMAIN s |-> IF s[i] \in DOMAIN Hex \ {"%"} THEN <<"%", Hex[s[i]]>>
                                 ELSE <<s[i]>>])

urlencode(s) ==
  FlattenSeq([i \in DOMAIN s |-> IF s[i] \in DOMAIN Hex THEN <<"%", Hex[s[i]]>>
                                 ELSE <<s[i]>>])

Before(s, n) == SubSeq(s, 1, n - 1)
After(s, n) == SubSeq(s, n + 1, Len(s))
First(s, c) == SelectInSeq(s, LAMBDA d : d = c)

\* split(','): the n-th part of a text, or its default where it has no more commas.
Part(s, n, default) ==
  LET commas == {i \in DOMAIN s : s[i] = ","}
      from == CHOOSE i \in {0} \cup commas : Cardinality({c \in commas : c <= i}) = n - 1
      to == Min({i \in commas : i > from} \cup {Len(s) + 1})
  IN  IF n - 1 > Cardinality(commas) THEN default ELSE SubSeq(s, from + 1, to - 1)

IsUrl(s) == \E i \in 1..(Len(s) - 2) : SubSeq(s, i, i + 2) = <<":", "/", "/">>

redis_url(spec) ==
  LET pass == Part(spec, 4, <<>>)
      user == IF pass = <<>> THEN <<>> ELSE <<":">> \o urlencode(pass) \o <<"@">>
  IN  CASE IsUrl(spec) -> spec
        [] ~IsUrl(spec) /\ ~Contains(spec, ",") -> Scheme \o spec \o <<"/", "0">>
        [] OTHER -> Scheme \o user \o Part(spec, 1, <<>>) \o <<":">> \o Part(spec, 2, Port)
                      \o <<"/">> \o Part(spec, 3, Db)
-----------------------------------------------------------------------------------
(* How a URL is read (RFC 3986): the authority ends with the first slash, and  *)
(* the user's part of it with the last "@".                                    *)

Char(code) == IF \E c \in DOMAIN Hex : Hex[c] = code
              THEN CHOOSE c \in DOMAIN Hex : Hex[c] = code
              ELSE "no code"
Decode(s) ==
  FlattenSeq([i \in DOMAIN s |-> IF s[i] = "%" THEN <<>>
                                 ELSE IF i > 1 /\ s[i - 1] = "%" THEN <<Char(s[i])>>
                                 ELSE <<s[i]>>])

\* The parts of a host with its port.
HostPort(s) ==
  LET colon == First(s, ":") IN
    [host |-> IF colon = 0 THEN s ELSE Before(s, colon),
     port |-> IF colon = 0 THEN Port ELSE After(s, colon)]

ReadUrl(url) ==
  LET rest == SubSeq(url, Len(Scheme) + 1, Len(url))
      slash == First(rest, "/")
      authority == IF slash = 0 THEN rest ELSE Before(rest, slash)
      at == SelectLastInSeq(authority, LAMBDA c : c = "@")
      user == Before(authority, at)
  IN  [server |-> HostPort(After(authority, at)),
       db     |-> IF slash = 0 THEN Db ELSE After(rest, slash),
       pass   |-> IF at = 0 THEN <<>> ELSE Decode(After(user, First(user, ":")))]

\* What the three forms of -X mean: a URL; a host and perhaps a port; or
\* ip,port[,db[,password]].
Meant(spec) ==
  IF IsUrl(spec) THEN ReadUrl(spec)
  ELSE IF ~Contains(spec, ",") THEN [server |-> HostPort(spec), db |-> Db, pass |-> <<>>]
  ELSE [server |-> [host |-> Part(spec, 1, <<>>), port |-> Part(spec, 2, Port)],
        db     |-> Part(spec, 3, Db),
        pass   |-> Part(spec, 4, <<>>)]

\* A host and a port without the characters that end them in a URL.
PlainHost(spec) ==
  \/ IsUrl(spec)
  \/ /\ \A c \in {"/", "@"} :
          ~Contains(Part(spec, 1, <<>>), c) /\ ~Contains(Part(spec, 2, Port), c)
     /\ Contains(spec, ",") => ~Contains(Part(spec, 1, <<>>), ":")
===================================================================================
