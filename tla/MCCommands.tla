------------------------------- MODULE MCCommands -------------------------------
(* Command lines over a small alphabet.  Two long names share a prefix.        *)
EXTENDS Commands

Spec1(c, l, a) == [short |-> c, long |-> l, arg |-> a]
MCSpecs ==
  {Spec1("?", <<"h">>, FALSE), Spec1("w", <<"w", "h">>, FALSE), Spec1("a", <<"w", "a">>, FALSE),
   Spec1("n", <<"n", "h">>, TRUE), Spec1("m", <<"m">>, TRUE), Spec1("F", <<"f">>, TRUE),
   Spec1("Z", <<"t">>, TRUE), Spec1("V", <<"v">>, TRUE),
   Spec1("X", <<"x">>, TRUE), Spec1("o", <<"o">>, FALSE), Spec1("t", <<"s">>, TRUE),
   Spec1("U", <<"u">>, TRUE), Spec1("G", <<"g">>, TRUE)}

\* Clusters, values attached and separate, long names whole, short, ambiguous and
\* unknown, and what ends the options.
Arguments ==
  {<<"-", "w">>, <<"-", "a", "w">>, <<"-", "a", "n">>, <<"-", "n", "w">>, <<"-", "a", "x">>,
   <<"-", "w", "?">>, <<"-", "?", "x">>, <<"-", "-", "n">>, <<"-", "-", "n", "=", "=">>, <<"-", "-", "w">>,
   <<"-", "-", "w", "a", "=">>, <<"-", "-", "x">>, <<"-", "-">>, <<"-">>, <<>>, <<"n">>}

UpTo(n) == UNION {[1..k -> Arguments] : k \in 0..n}

\* A command line that can mount, with something before, in the middle and after.
Url == {<<<<"-", "n", "u">>>>, <<<<"-", "a", "n">>, <<"u">>>>}
Types == {<<<<"-", "F", "s">>>>, <<<<"-", "F", "x">>>>, <<>>}
Tables == {<<<<"-", "Z", "t">>>>, <<<<"-", "Z">>>>}
Pools == {<<>>, <<<<"-", "V", "2", "x">>>>, <<<<"-", "V">>, <<" ", "-", "1">>>>,
          <<<<"-", "t", "o", "V", "1", "0">>>>, <<<<"-", "o", "t", "0">>>>}
Whole == {u \o <<<<"-", "m", "p">>>> \o v \o f \o z \o <<a>> :
            u \in Url, v \in Pools, f \in Types, z \in Tables, a \in Arguments}
         \cup {<<a>> \o u \o <<<<"-", "m", "p">>>> \o f \o z :
                 u \in Url, f \in Types, z \in Tables, a \in Arguments}


\* The forms of -X.
Secrets == UNION {[1..k -> {"p", "@", ":", "/", "%", "2F"}] : k \in 1..3}
Hosts == {<<"h">>, <<"h", ":", "1">>, <<"h", ",", "1">>, <<"h", ",", "1", ",", "2">>,
          Scheme \o <<":", "p", "%", "40", "@", "h", ":", "1", "/", "2">>}
         \cup {<<"h", ",", "1", ",", "2", ",">> \o p : p \in {q \in Secrets : ~IsUrl(q)}}
OnRedis == {<<<<"-", "n", "u">>, <<"-", "m", "p">>, <<"-", "F", "r">>, <<"-", "Z", "t">>,
              <<"-", "X">>, x>> : x \in Hosts}

\* Ids in the URL and in the options; a word may also be part of the export's path.
Ids(w) == {<<>>, <<w, "=", "7">>, <<w, "=", "1", "0">>, <<w, "=">>, <<w, "=", "x">>}
Urls == {<<"h", "?">> \o a \o <<"&">> \o b : a \in Ids("uid"), b \in Ids("gid")}
        \cup {<<"h", "?">> \o b \o <<"&", "v", "=", "3", "&">> \o a :
                 a \in Ids("uid"), b \in Ids("gid")}
        \cup {<<"h", "/", "uid", "=", "2">>, <<"h">>}
IdOptions == {<<>>, <<<<"-", "U", "5">>>>, <<<<"-", "G", "6">>, <<"-", "U", "-", "1">>>>,
              <<<<"-", "G", "6">>, <<"-", "G", "8">>, <<"-", "q">>>>}
WithIds == {<<<<"-", "m", "p">>, <<"-", "F", "s">>, <<"-", "Z", "t">>, <<"-", "n">>, u>> \o o :
              u \in Urls, o \in IdOptions}

MCYourfsLines == UpTo(3) \cup Whole \cup OnRedis \cup WithIds
MCGoodType(v) == v \in {<<"s">>, <<"r">>}
MCRedisType == <<"r">>
MCGoodTable(v) == v = <<"t">>

MCToolSpecs ==
  {Spec1("?", <<"h">>, FALSE), Spec1("s", <<"s">>, TRUE), Spec1("i", <<"i">>, TRUE),
   Spec1("Z", <<"t">>, TRUE), Spec1("F", <<"f">>, TRUE)}

ToolArguments ==
  {<<"-", "s", "p">>, <<"-", "s">>, <<>>, <<"-", "F", "s">>, <<"-", "-", "f">>, <<"s">>,
   <<"-", "-", "f", "=", "x">>, <<"-", "Z", "t">>, <<"-", "Z", "u">>, <<"-", "i", "?">>,
   <<"-", "?">>, <<"-", "?", "x">>, <<"-", "x">>, <<"-", "-">>}
MCToolLines == UNION {[1..k -> ToolArguments] : k \in 0..3}
================================================================================
