-------------------------- MODULE MCConfiguration ---------------------------
(* Texts are over the letters a (97), b (98), A (65) and the asterisk (42).  *)
(* A first file has one part that varies and is otherwise empty.            *)
EXTENDS Configuration

UpTo(n, S) == UNION {[1 .. k -> S] : k \in 0 .. n}

MCTexts == UpTo(3, {97, 98}) \cup {<<97, 98, 97, 97>>}

Entry(pattern, name) == [pattern |-> pattern, name |-> name, disabled |-> FALSE]
Disabled(e) == [e EXCEPT !.disabled = TRUE]

Patterns ==
    {<<97>>, <<98, 97>>, <<42>>, <<97, 42>>, <<42, 97, 98>>, <<42, 98, 42>>,
     <<97, 42, 98>>, <<65, 42, 97>>, <<42, 97, 98, 42>>}

Unnamed == {Entry(p, NoName) : p \in Patterns}
Named   == {Entry(p, n) : p \in {<<97, 42>>, <<42, 98>>, <<98, 97>>}, n \in {<<97>>, <<98, 97>>}}

Lists ==
    UpTo(3, Unnamed) \cup UpTo(3, Named) \cup
    [1 .. 4 -> {Entry(p, NoName) : p \in {<<42, 97, 98>>, <<97, 42, 98>>, <<42, 98, 42>>}}] \cup
    {<<Disabled(Entry(<<42>>, NoName)), Entry(<<97, 42>>, NoName)>>,
     <<Disabled(Entry(<<>>, NoName)), Entry(<<98, 42>>, NoName)>>}

App(path) == [name |-> "ok", path |-> path, whitelist |-> <<Entry(<<97, 42>>, NoName)>>,
              blacklist |-> <<Entry(<<42>>, NoName)>>]
AppLists == UpTo(3, {App(p) : p \in {<<42>>, <<97>>, <<98>>, <<97, 98>>}})

MCPaths == {<<42>>, <<97>>, <<98>>, <<97, 98>>, <<98, 98>>, NoPath}

MCNames == {"a", "b", "c", "d", "C", "ip", "ip6", "ra", "ra6"}
MCLower == [n \in MCNames |-> IF n = "C" THEN "c" ELSE n]
MCReverseName == [n \in MCNames |-> IF n = "ip6" THEN "ra6" ELSE "ra"]

Line(name, type, data) == [name |-> name, type |-> type, data |-> data, valid |-> TRUE]
DatabaseLines ==
    LET lines == {Line("a", "A", "ip"), Line("C", "AAAA", "ip6"), Line("c", "A", "ip"),
                  Line("a", "CNAME", "b"), Line("b", "CNAME", "c"), Line("b", "CNAME", "C"),
                  Line("c", "CNAME", "a"), Line("c", "MX", "d"), Line("d", "CNAME", "a")}
    IN  {<<l, l, l>> : l \in lines} \cup UpTo(2, lines) \cup {<<x, y, z>> : x \in {Line("a", "CNAME", "b")}, y, z \in lines}

MCQuestions == [name : MCNames, type : {"A", "AAAA", "CNAME", "MX", "PTR"}]

Blank ==
    [basics |-> "ok", servers |-> <<TRUE>>, apps |-> <<>>, database |-> <<>>,
     whitelist |-> <<>>, blacklist |-> <<>>]

BadApp(what, value) == <<App(<<97>>), [App(<<98>>) EXCEPT ![what] = value]>>

(* Files LoadConfig must refuse, or fails on.                              *)
Refused ==
    {[Blank EXCEPT !.basics = "error"], [Blank EXCEPT !.basics = "panic"],
     [Blank EXCEPT !.servers = <<TRUE, FALSE>>],
     [Blank EXCEPT !.whitelist = <<Entry(<<>>, <<97>>)>>],
     [Blank EXCEPT !.blacklist = <<Entry(<<97>>, NoName), Entry(<<>>, NoName)>>],
     [Blank EXCEPT !.database = <<Line("a", "TXT", "b")>>],
     [Blank EXCEPT !.database =
        <<Line("a", "A", "ip"), [Line("a", "A", "ip") EXCEPT !.valid = FALSE]>>]}
    \cup {[Blank EXCEPT !.apps = apps] :
            apps \in {BadApp("name", "nil"), BadApp("name", "blank"), BadApp("path", <<>>),
                      BadApp("whitelist", <<Entry(<<>>, NoName)>>),
                      BadApp("blacklist", <<Entry(<<>>, NoName)>>)}}

Plain == [Blank EXCEPT !.apps = <<App(<<97>>)>>, !.blacklist = <<Entry(<<97, 42>>, NoName)>>]

(* *b*b* covers ab*b*, which covers abaa*, in which no two b are; *b* covers *)
(* *$aa, which covers *aaa, in which there is no b.                         *)
ChainedFiles ==
    {[Blank EXCEPT !.blacklist = list] :
        list \in {<<Entry(<<42, 98, 42, 98, 42>>, NoName), Entry(<<97, 98, 42, 98, 42>>, NoName),
                    Entry(<<97, 98, 97, 97, 42>>, NoName)>>,
                  <<Entry(<<42, 98, 42>>, NoName), Entry(<<42, 36, 97, 97>>, NoName),
                    Entry(<<42, 97, 97, 97>>, NoName)>>}}

MCFiles ==
    Refused \cup ChainedFiles
            \cup {[Blank EXCEPT !.blacklist = list] : list \in Lists}
            \cup {[Blank EXCEPT !.whitelist = list] : list \in UpTo(2, Unnamed)}
            \cup {[Blank EXCEPT !.apps = apps] : apps \in AppLists}
            \cup {[Blank EXCEPT !.database = lines] : lines \in DatabaseLines}

MCReloads == {Plain, [Blank EXCEPT !.blacklist = <<Entry(<<>>, NoName)>>]}

(* As "*youtube*", called "youtube", and "*ytimg*", called "youtube image",  *)
(* are in conf.json: "*b*" called "b", and "*aa*" called "ab".              *)
NamedFiles ==
    {[Blank EXCEPT !.whitelist = list] :
        list \in UpTo(2, {Entry(<<42, 98, 42>>, <<98>>), Entry(<<42, 97, 97, 42>>, <<97, 98>>)})}

LossyFiles == NamedFiles \cup ChainedFiles
=============================================================================
