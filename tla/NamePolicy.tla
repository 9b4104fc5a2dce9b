----------------------------- MODULE NamePolicy -----------------------------
(***************************************************************************)
(* Which names a client may resolve: IsNameAllowed of dns/server.go.  A     *)
(* compiled filter list is the set of names some filter of it matches; a    *)
(* rule holds the two lists of an application.                              *)
(***************************************************************************)

CONSTANTS
    GlobalWhite,  (* names the global whitelist matches                     *)
    GlobalBlack,  (* names the global blacklist matches                     *)
    NoRule        (* the nil rule                                           *)

InWhitelist(name, rule) == rule # NoRule /\ name \in rule.white
InBlacklist(name, rule) == rule # NoRule /\ name \in rule.black

(* The blacklist of an application yields to its own whitelist only, the    *)
(* global blacklist to both whitelists.                                     *)
Blocked(name, rule) ==
    IF InBlacklist(name, rule)
    THEN ~InWhitelist(name, rule)
    ELSE name \in GlobalBlack /\ ~InWhitelist(name, rule) /\ name \notin GlobalWhite

(* Allowed although a blacklist matches: a filter is returned with the true. *)
Overridden(name, rule) ==
    (InBlacklist(name, rule) \/ name \in GlobalBlack) /\ ~Blocked(name, rule)
=============================================================================
