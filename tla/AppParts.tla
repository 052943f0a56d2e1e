--------------------------------- MODULE AppParts -------------------------------
(***************************************************************************)
(* The sequential parts of network/ and script/, each in a behaviour of    *)
(* its own, as KitParts has those of base/ and kit/.  (Queue is here       *)
(* because QList's definitions have the same names.)                       *)
(***************************************************************************)
EXTENDS Queue, Terminal, Protocol, LuaGC, LuaTable, LuaString, LuaLib

VARIABLE part   \* the part that moves

appVars == <<part, vars, terminalVars, protocolVars, gcVars, tableVars,
             stringVars, lib_case>>

AppInit ==
    /\ part \in {"queue", "terminal", "protocol", "luagc", "luatable", "luastring", "lualib"}
    /\ Init /\ (part # "queue" => ~ ok /\ que_ = [i \in DOMAIN que_ |-> value]
                                       /\ value = CHOOSE v \in Type : TRUE)
    /\ TerminalInit /\ (part # "terminal" => t_server = CHOOSE b \in Servers : TRUE)
    /\ ProtocolInit
    /\ GcInit /\ (part # "luagc" => gc_kinds = CHOOSE p \in GcPrograms : TRUE)
    /\ TableInit /\ (part # "luatable" => lt_t = emptyTable)
    /\ StringInit /\ (part # "luastring" => tbsize = CHOOSE n \in MINSTRTABSIZE : TRUE)
    /\ LibInit

\* The part called name makes the step A, when it is the one that moves.
Turn(name, A, v) == IF part = name THEN A ELSE UNCHANGED v

AppNext ==
    /\ UNCHANGED part
    /\ Turn("queue", Next, vars)
    /\ Turn("terminal", TerminalNext, terminalVars)
    /\ Turn("protocol", ProtocolNext, protocolVars)
    /\ Turn("luagc", GcNext, gcVars)
    /\ Turn("luatable", TableNext, tableVars)
    /\ Turn("luastring", StringNext, stringVars)
    /\ Turn("lualib", LibNext, lib_case)

AppSpec == AppInit /\ [][AppNext]_appVars

\* Sockets are alike, and so are the addresses of objects.
Symmetry == Permutations(Socks) \cup Permutations(GcObjs)

\* The kinds of object the programs use that the collector is run beside.
Programs == {{"ephemeron"}, {"weakvalue"}, {"allweak"}, {"udata", "strong"}, {"thread", "closure"},
             {"udata", "ephemeron"}, {"udata", "weakvalue"}, {"udata", "allweak"}}

\* Integer keys: 1, 2 and 4 may be in an array part, 0, 4 and 8 collide in every hash part.
Keys == {0, 1, 2, 4, 8}
Sizes == {0, 4}

\* Short strings that share a chain of two, and a long one.
Texts == {[name |-> "a", hash |-> 0, long |-> FALSE], [name |-> "b", hash |-> 2, long |-> FALSE],
          [name |-> "l", hash |-> 0, long |-> TRUE]}
=================================================================================
