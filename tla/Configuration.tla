--------------------------- MODULE Configuration ----------------------------
(***************************************************************************)
(* Loading the configuration: LoadConfig of common/common.go and compile of  *)
(* config/config.go, with the goroutines of the filter lists.  A file is     *)
(*                                                                         *)
(*     [basics    |-> the result of the checks of the Http and Dns sections  *)
(*                    and of the presence of all others,                    *)
(*      servers   |-> a sequence of Booleans: is the address valid?,         *)
(*      apps      |-> a sequence of [name, path, whitelist, blacklist],      *)
(*      database  |-> a sequence of entries, see LocalDatabase,              *)
(*      whitelist, blacklist |-> sequences of [pattern, name, disabled]]     *)
(***************************************************************************)
EXTENDS FilterList, AppRules, LocalDatabase

CONSTANTS
    Files,      \* what the first load may find in conf.json
    Reloads,    \* what a later one may find
    NoName,     \* the name of a filter that has none
    NoConfig,   \* the nil configuration
    MaxLoads,   \* bound on the number of loads
    Texts,      \* the names the properties filter
    Paths,      \* the paths they look up
    Questions   \* the questions [name, type] they ask the local database

FilterEntries == [pattern : ByteString, name : ByteString \cup {NoName}, disabled : BOOLEAN]

AppEntries ==
    [name : {"ok", "nil", "blank"}, path : ByteString,
     whitelist : Seq(FilterEntries), blacklist : Seq(FilterEntries)]

ConfFiles ==
    [basics : {"ok", "error", "panic"}, servers : Seq(BOOLEAN), apps : Seq(AppEntries),
     database : Seq(DatabaseEntries),
     whitelist : Seq(FilterEntries), blacklist : Seq(FilterEntries)]

Rules == [path : ByteString, whitelist : FilterLists, blacklist : FilterLists]

Configs ==
    [source : ConfFiles, apps : Seq(Rules), database : Databases,
     whitelist : FilterLists, blacklist : FilterLists]

ASSUME FilesAssumption == Files \subseteq ConfFiles /\ Reloads \subseteq ConfFiles

ASSUME NilAssumption ==
    /\ NoName \notin ByteString /\ NoPath \notin ByteString
    /\ NoConfig \notin Configs

ASSUME LoadsAssumption == MaxLoads \in Nat

ASSUME LookupsAssumption ==
    /\ Texts \subseteq ByteString
    /\ Paths \subseteq ByteString \cup {NoPath}
    /\ \A q \in Questions : q.name \in Names

VARIABLES
    stage,      \* where LoadConfig is
    file,       \* what it has read
    built,      \* what compile has made so far
    pairs,      \* the goroutines of a filter list that have not run yet
    config,     \* AppContext.config
    loads,
    panicked

vars == <<stage, file, built, pairs, config, loads, panicked>>

Stages == {"idle", "basics", "servers", "apps", "database", "whitelist", "whiteVerify",
           "blacklist", "blackVerify", "publish"}

NothingBuilt ==
    [source |-> file, apps |-> <<>>, database |-> NewDatabase,
     whitelist |-> NewFilterList, blacklist |-> NewFilterList]

Init ==
    /\ stage = "idle"
    /\ file \in Files
    /\ built = NothingBuilt
    /\ pairs = {}
    /\ config = NoConfig
    /\ loads = 0
    /\ panicked = FALSE

-----------------------------------------------------------------------------
(* compileFilterList                                                       *)

IsEnabled(e) == ~ e.disabled

(* A mutant of HasBadFilter: disabled filters are checked too.             *)
HasBadFilterAnywhere(entries) == \E i \in DOMAIN entries : entries[i].pattern = <<>>

HasBadFilter(entries) ==
    \E i \in DOMAIN entries : IsEnabled(entries[i]) /\ entries[i].pattern = <<>>

FilterName(e) == IF e.name = NoName THEN e.pattern ELSE e.name

RawList(entries) ==
    FoldLeft(LAMBDA list, e : IF IsEnabled(e) THEN AddFilter(list, e.pattern, FilterName(e))
                              ELSE list,
             NewFilterList, entries)

(* compileAppRules of one rule.                                            *)
CompiledRule(app) ==
    [path |-> app.path,
     whitelist |-> Compiled(RawList(app.whitelist)),
     blacklist |-> Compiled(RawList(app.blacklist))]

IsBadRule(app) ==
    \/ app.name = "blank"
    \/ app.path = <<>>
    \/ HasBadFilter(app.whitelist)
    \/ HasBadFilter(app.blacklist)

-----------------------------------------------------------------------------
(* The steps of LoadConfig.                                                *)

Read(f) ==
    /\ stage = "idle"
    /\ ~ panicked
    /\ loads < MaxLoads
    /\ loads' = loads + 1
    /\ file' = f
    /\ built' = [NothingBuilt EXCEPT !.source = f]
    /\ stage' = "basics"
    /\ UNCHANGED <<pairs, config, panicked>>

(* conf.json is missing, or is not what json.Unmarshal takes.               *)
ReadFails ==
    /\ stage = "idle"
    /\ ~ panicked
    /\ loads < MaxLoads
    /\ loads' = loads + 1
    /\ UNCHANGED <<stage, file, built, pairs, config, panicked>>

Goto(from, to) ==
    /\ stage = from
    /\ ~ panicked
    /\ stage' = to
    /\ UNCHANGED <<file, loads>>

Fail(from) ==
    /\ Goto(from, "idle")
    /\ UNCHANGED <<built, pairs, config, panicked>>

Panic(from) ==
    /\ Goto(from, from)
    /\ panicked' = TRUE
    /\ UNCHANGED <<built, pairs, config>>

(* The checks dereference conf.Http.Network and conf.Dns.Network.           *)
CheckBasics ==
    \/ file.basics = "error" /\ Fail("basics")
    \/ file.basics = "panic" /\ Panic("basics")
    \/ /\ file.basics = "ok"
       /\ Goto("basics", "servers")
       /\ UNCHANGED <<built, pairs, config, panicked>>

CompileServers ==
    IF \E i \in DOMAIN file.servers : ~ file.servers[i]
    THEN Fail("servers")
    ELSE /\ Goto("servers", "apps")
         /\ UNCHANGED <<built, pairs, config, panicked>>

(* The first bad rule decides; the message about a rule without a name       *)
(* dereferences the name.                                                  *)
FirstBadRule == SelectInSeq(file.apps, LAMBDA app : app.name = "nil" \/ IsBadRule(app))

CompileApps ==
    IF FirstBadRule = 0
    THEN /\ Goto("apps", "database")
         /\ built' = [built EXCEPT !.apps =
                        SortedRules([i \in DOMAIN file.apps |-> CompiledRule(file.apps[i])])]
         /\ UNCHANGED <<pairs, config, panicked>>
    ELSE IF file.apps[FirstBadRule].name = "nil" THEN Panic("apps") ELSE Fail("apps")

CompileDatabase ==
    IF \E i \in DOMAIN file.database : ToResources(file.database[i]) = <<>>
    THEN Fail("database")
    ELSE /\ Goto("database", "whitelist")
         /\ built' = [built EXCEPT !.database =
                        FoldLeft(LAMBDA db, e : AddRecords(db, ToResources(e)),
                                 NewDatabase, file.database)]
         /\ UNCHANGED <<pairs, config, panicked>>

(* Compile up to the goroutines, one of them, and the rest after wg.Wait.   *)
StartList(which, verify) ==
    IF HasBadFilter(file[which]) THEN Fail(which)
    ELSE LET list == Prepared(RawList(file[which]))
         IN  /\ Goto(which, verify)
             /\ built' = [built EXCEPT ![which] = list]
             /\ pairs' = Pairs(list)
             /\ UNCHANGED <<config, panicked>>

VerifyPair(which, verify, p) ==
    /\ p \in pairs
    /\ Goto(verify, verify)
    /\ built' = [built EXCEPT ![which] = Verified(@, p)]
    /\ pairs' = pairs \ {p}
    /\ UNCHANGED <<config, panicked>>

FinishList(which, verify, next) ==
    /\ pairs = {}
    /\ Goto(verify, next)
    /\ built' = [built EXCEPT ![which] = Finished(@)]
    /\ UNCHANGED <<pairs, config, panicked>>

(* The assignment to AppContext.config, after the lock has been released.   *)
(* The call of OnConfigUpdate that follows changes nothing before Run: see   *)
(* Lifecycle.                                                              *)
Publish ==
    /\ Goto("publish", "idle")
    /\ config' = built
    /\ UNCHANGED <<built, pairs, panicked>>

Next ==
    \/ \E f \in (IF loads = 0 THEN {file} ELSE Reloads) : Read(f)
    \/ ReadFails
    \/ CheckBasics \/ CompileServers \/ CompileApps \/ CompileDatabase
    \/ StartList("whitelist", "whiteVerify") \/ StartList("blacklist", "blackVerify")
    \/ \E p \in pairs : \/ VerifyPair("whitelist", "whiteVerify", p)
                        \/ VerifyPair("blacklist", "blackVerify", p)
    \/ FinishList("whitelist", "whiteVerify", "blacklist")
    \/ FinishList("blacklist", "blackVerify", "publish")
    \/ Publish

Spec == Init /\ [][Next]_vars

-----------------------------------------------------------------------------
(* Properties.                                                             *)

TypeOK ==
    /\ stage \in Stages
    /\ file \in ConfFiles
    /\ built \in Configs /\ built.source = file
    /\ pairs \subseteq Pairs(built.whitelist) \cup Pairs(built.blacklist)
    /\ config \in Configs \cup {NoConfig}
    /\ loads \in 0 .. MaxLoads
    /\ panicked \in BOOLEAN

(* Properties are about what a load has left behind.                       *)
InForce == stage = "idle" /\ config # NoConfig

(* The name FindFilter should return, from the entries of the file alone:   *)
(* the least name, in the order of compare, of an enabled filter that        *)
(* matches and that no filter of a lesser name covers.                      *)
ExpectedFilter(entries, text) ==
    LET on == {i \in DOMAIN entries : IsEnabled(entries[i])}
        f == [i \in on |-> NewNameFilter(entries[i].pattern, FilterName(entries[i]))]
        Before(i, j) == \/ TextLess(f[i].name, f[j].name)
                        \/ f[i].name = f[j].name /\ i < j
        hits == {i \in on : /\ Matches(text, f[i])
                            /\ ~ \E j \in on : Before(j, i) /\ Covers(f[j], f[i])}
    IN  IF hits = {} THEN NoName
        ELSE f[CHOOSE i \in hits : \A j \in hits \ {i} : Before(i, j)].name

FoundFilter(list, text) ==
    LET index == FindFilter(list, text)
    IN  IF index = NotFound THEN NoName ELSE list.filters[index].name

(* Whatever order the goroutines of Compile ran in, and wherever the two     *)
(* sorts put the filters, FindFilter returns the filter the file determines: *)
(* Compile and FindFilter of config/filterList.go.                          *)
FindsTheFirst ==
    InForce => \A which \in {"whitelist", "blacklist"}, t \in Texts :
        FoundFilter(config[which], t) = ExpectedFilter(config.source[which], t)

(* What a pattern says: an asterisk stands for any bytes.                   *)
Fits(text, pattern) ==
    LET from[at \in (1 .. Len(text) + 1) \X (1 .. Len(pattern) + 1)] ==
            IF at[2] > Len(pattern) THEN at[1] > Len(text)
            ELSE IF pattern[at[2]] = Asterisk
                 THEN \/ from[<<at[1], at[2] + 1>>]
                      \/ at[1] <= Len(text) /\ from[<<at[1] + 1, at[2]>>]
                 ELSE /\ at[1] <= Len(text) /\ text[at[1]] = pattern[at[2]]
                      /\ from[<<at[1] + 1, at[2] + 1>>]
    IN  from[<<1, 1>>]

IsMeant(entries, text) ==
    \E i \in DOMAIN entries :
        IsEnabled(entries[i]) /\ Fits(text, LowerText(entries[i].pattern))

AllUnnamed(entries) == \A i \in DOMAIN entries : entries[i].name = NoName

(* The filter of an entry, and the entries whose filters shadow it.          *)
FilterOf(e) == NewNameFilter(e.pattern, FilterName(e))

Coverers(entries, i) ==
    {j \in DOMAIN entries :
        /\ IsEnabled(entries[j])
        /\ \/ TextLess(FilterName(entries[j]), FilterName(entries[i]))
           \/ FilterName(entries[j]) = FilterName(entries[i]) /\ j < i
        /\ Covers(FilterOf(entries[j]), FilterOf(entries[i]))}

(* Leaving out the shadowed filters loses nothing where filters are called   *)
(* by their patterns, but along a chain: a name that fits an enabled pattern *)
(* is found, if that filter, or one that covers it, is covered by none.      *)
(* verifyFilter and the second sort of config/filterList.go.                *)
ShadowingLosesNothing ==
    InForce => \A which \in {"whitelist", "blacklist"} :
        LET entries == config.source[which]
        IN  AllUnnamed(entries) =>
              \A t \in Texts, i \in DOMAIN entries :
                 /\ IsEnabled(entries[i]) /\ Fits(t, LowerText(entries[i].pattern))
                 /\ \E j \in {i} \cup Coverers(entries, i) : Coverers(entries, j) = {}
                 => FindFilter(config[which], t) # NotFound

(* The same where filters have names of their own, or cover each other in a  *)
(* chain; the code breaks it.  verifyFilter matches those names instead of   *)
(* the patterns, and what it decides of two filters is not transitive.       *)
EveryFilterCounts ==
    InForce => \A which \in {"whitelist", "blacklist"}, t \in Texts :
        IsMeant(config.source[which], t) => FindFilter(config[which], t) # NotFound

(* An application gets the rule of its path, else that of "*", else none,    *)
(* however many rules there are and in whatever order the file has them:     *)
(* Sort and FindName of config/appList.go.                                  *)
RuleOfThePath ==
    InForce => \A path \in Paths :
        LET given == {config.source.apps[i].path : i \in DOMAIN config.source.apps}
            index == FindName(config.apps, path)
        IN  IF path \in given THEN index # NoIndex /\ config.apps[index].path = path
            ELSE IF EveryPath \in given
                 THEN index # NoIndex /\ config.apps[index].path = EveryPath
                 ELSE index = NoIndex

(* The records the entries of the file stand for.                           *)
Given(entries) ==
    UNION {LET e == entries[i]
           IN  {Record(e.name, e.type, e.data)} \cup
               (IF e.type \in {"A", "AAAA"}
                THEN {Record(ReverseName[e.data], "PTR", e.name)} ELSE {}) :
           i \in DOMAIN entries}

(* The names fewer than MaxDepth aliases away from n, in the case aliases    *)
(* give them.                                                              *)
Reached(given, n) ==
    LET within[d \in 0 .. MaxDepth - 1] ==
            IF d = 0 THEN {n}
            ELSE within[d - 1] \cup
                 {r.target : r \in {x \in given : x.type = "CNAME" /\ Lower[x.owner] \in within[d - 1]}}
    IN  within[MaxDepth - 1]

ExpectedRecords(given, type, name) ==
    LET owners == IF type = "CNAME" THEN {Lower[name]} ELSE Reached(given, Lower[name])
    IN  {r \in given : r.type = type /\ Lower[r.owner] \in owners}

(* The local database answers with all and only what the file says, over     *)
(* aliases, loops of them too, and for addresses both ways: toDnsResource    *)
(* of config/dns.go, Add and LookupAnswer of config/database.go.            *)
DatabaseAnswers ==
    InForce => LET given == Given(config.source.database) IN \A q \in Questions :
        LookupPanics(config.database, q) \/
        LET answer == LookupAnswer(config.database, q)
            expected == ExpectedRecords(given, q.type, q.name)
            others == IF q.type \in {"A", "AAAA"}
                      THEN ExpectedRecords(given, OtherFamily(q.type), q.name) ELSE {}
        IN  /\ answer.isLocal <=> expected # {} \/ others # {}
            /\ ToSet(answer.answers) = expected
            /\ ToSet(answer.additionals) = others

(* Nothing wrong in the file, as far as compile looks.                      *)
IsValid(f) ==
    /\ f.basics = "ok"
    /\ \A i \in DOMAIN f.servers : f.servers[i]
    /\ \A i \in DOMAIN f.apps : f.apps[i].name \notin {"nil", "blank"} /\ f.apps[i].path # <<>>
    /\ \A i \in DOMAIN f.database : f.database[i].valid /\ f.database[i].type \in RecordTypes
    /\ \A list \in {f.whitelist, f.blacklist} \cup
                   UNION {{f.apps[i].whitelist, f.apps[i].blacklist} : i \in DOMAIN f.apps} :
          \A i \in DOMAIN list : list[i].pattern # <<>> \/ list[i].disabled

(* A load that ends puts a valid file into force, all of it, and leaves the  *)
(* configuration alone for any other: LoadConfig of common/common.go.       *)
OutcomeFitsFile ==
    [][stage # "idle" /\ stage' = "idle" =>
         IF IsValid(file) THEN config' # NoConfig /\ config'.source = file
         ELSE config' = config]_vars
=============================================================================
