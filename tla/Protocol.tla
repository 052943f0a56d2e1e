--------------------------------- MODULE Protocol -------------------------------
(***************************************************************************)
(* network/Protocol.cpp: the data of a protocol as a tree, which writes    *)
(* itself to a Buffer and reads itself back, and LuaProtocol.cpp, which    *)
(* makes the tree from a description and fills it from a table of Lua.     *)
(* One Protocol object of a Terminal takes every packet of its id, one     *)
(* after the other, cut short ones too, and may be filled and sent in      *)
(* between; a script fills one object again and again.  The log shows each *)
(* object that has been read (toString), and a null pointer met there is   *)
(* the end of the process.  A value, a varint, a string and an array's     *)
(* length are one cell of the buffer each (Buffer says what they are       *)
(* there).                                                                 *)
(*                                                                         *)
(* A node is [type, key, value] or, for ARRAY and TABLE, [type, key,       *)
(* datas, template]; NULL among an array's datas_ is a null pointer.  A    *)
(* value of Lua is <<"number", v>>, <<"table", list, fields>> or "bad",    *)
(* which nothing can be made of.                                           *)
(***************************************************************************)
EXTENDS Integers, SequencesExt, Null

CONSTANTS Contents,      \* the values a VALUE holds, 0 among them
          MaxSent,       \* bound: the items of the arrays that are sent
          MaxReceived    \* bound: the packets one object takes, and the times it is filled

VARIABLES
    pt_from,       \* the tree of the script that sends, or NULL: the peer is none
    pt_data,       \* the object's tree
    pt_dead,       \* a null pointer has been shown: nothing reads pt_data any more
    pt_said,       \* history: what the table last put in pt_from says, or NULL
    pt_expect,     \* history: the tree last sent, while all of it arrived
    pt_received    \* history: the packets so far

protocolVars == <<pt_from, pt_data, pt_dead, pt_said, pt_expect, pt_received>>

\* createPTData: a value that has not been set.
createValue == [type |-> "VALUE", key |-> "", value |-> NULL]
createArray(template) == [type |-> "ARRAY", key |-> "", datas |-> <<>>, template |-> template]
createTable(datas) == [type |-> "TABLE", key |-> "", datas |-> datas, template |-> NULL]
createPTData(type) == CASE type = "VALUE" -> createValue
                        [] type = "ARRAY" -> createArray(NULL)
                        [] type = "TABLE" -> createTable(<<>>)

\* A protocol made in C++: a value, an array of values, an array of arrays, a value.
Shape == createTable(<<createValue, createArray(createValue),
                       createArray(createArray(createValue)), createValue>>)

\* clone: an item with nothing in it; of an array, with a template of its own.
RECURSIVE clone(_)
clone(d) == IF d.type = "VALUE" THEN createValue
            ELSE IF d.type = "ARRAY" /\ d.template # NULL THEN createArray(clone(d.template))
            ELSE IF d.type = "ARRAY" THEN createArray(NULL)
            ELSE NULL

\* serialize: an array's length, then the items; a table's items only.
RECURSIVE serialize(_)
serialize(d) ==
    IF d.type = "VALUE" THEN <<d.value>>
    ELSE (IF d.type = "ARRAY" THEN <<Len(d.datas)>> ELSE <<>>)
           \o FlattenSeq([i \in DOMAIN d.datas |-> serialize(d.datas[i])])

\* PTArray::clear and resetValue.
clear(d) == [d EXCEPT !.datas = <<>>]

\* Mutant of emptied: what was there stays.
emptiedNot(d) == d

\* The array before its items are read.
emptied(d) == clear(d)

\* resize(len) fills with null pointers, and addData puts the items behind them.
resize(d, len) == [d EXCEPT !.datas = @ \o [i \in 1 .. len |-> NULL]]

\* unserialize: [ok, data, rest], where rest is what it leaves in the buffer.  An array without
\* a template reads nothing.  It stops at the first item that cannot be made or that the buffer
\* has no bytes for, which for a table keeps the items it has read.
RECURSIVE unserialize(_, _)
unserialize(d, buffer) ==
    LET \* The items, one after the other: a template's clones, or the table's own.
        RECURSIVE items(_, _, _)
        items(done, todo, rest) ==
            IF todo = <<>> THEN [ok |-> TRUE, datas |-> done, rest |-> rest]
            ELSE IF Head(todo) = NULL THEN [ok |-> FALSE, datas |-> done, rest |-> rest]
            ELSE LET one == unserialize(Head(todo), rest)
                 IN  IF one.ok THEN items(Append(done, one.data), Tail(todo), one.rest)
                     ELSE [ok |-> FALSE, rest |-> one.rest, datas |->
                             IF d.type = "ARRAY" THEN done
                                                 ELSE done \o <<one.data>> \o Tail(todo)]
        read(into, todo, rest) ==
            LET all == items(<<>>, todo, rest)
            IN  [ok |-> all.ok, data |-> [into EXCEPT !.datas = @ \o all.datas],
                 rest |-> all.rest]
    IN  IF d.type = "TABLE" THEN read([d EXCEPT !.datas = <<>>], d.datas, buffer)
        ELSE IF d.type = "ARRAY" /\ d.template = NULL
          THEN [ok |-> FALSE, data |-> d, rest |-> buffer]
        ELSE IF buffer = <<>> THEN [ok |-> FALSE, data |-> d, rest |-> <<>>]
        ELSE IF d.type = "VALUE"
          THEN [ok |-> TRUE, data |-> [d EXCEPT !.value = Head(buffer)], rest |-> Tail(buffer)]
        ELSE read(resize(emptied(d), Head(buffer)),
                  [i \in 1 .. Head(buffer) |-> clone(d.template)], Tail(buffer))

\* Whether toString, which goes through every item, meets no null pointer.
RECURSIVE toString(_)
toString(d) == d # NULL /\ (d.type # "VALUE" => \A i \in DOMAIN d.datas : toString(d.datas[i]))

---------------------------------------------------------------------------------
(* From a script.                                                            *)

\* PTData::resetValue.
RECURSIVE resetValue(_)
resetValue(d) == CASE d.type = "VALUE" -> [d EXCEPT !.value = 0]
                   [] d.type = "ARRAY" -> clear(d)
                   [] d.type = "TABLE" -> [d EXCEPT !.datas = [i \in DOMAIN @ |-> resetValue(@[i])]]

\* registerTable: the entries <<key, type>> or <<key, type, third>> of a description are added to
\* datas until one is wrong; third is <<"type", type>> or <<"table", entries>>.  The items of an
\* array described by a table are made as arrays.
RECURSIVE registerTable(_, _)
registerTable(datas, entries) ==
    LET e     == Head(entries)
        keyed == [createPTData(e[2]) EXCEPT !.key = e[1]]
        third == IF Len(e) < 3 THEN "none" ELSE e[3][1]
        sub   == registerTable(<<>>, e[3][2])
        item  == [createPTData("ARRAY") EXCEPT !.datas = sub.datas]
        \* the entry's data, and whether the next entry is looked at
        made  == CASE e[2] \notin {"ARRAY", "TABLE"} -> <<keyed, TRUE>>
                   [] e[2] = "TABLE" /\ third = "table" -> <<[keyed EXCEPT !.datas = sub.datas], sub.ok>>
                   [] e[2] = "ARRAY" /\ third = "type" ->
                        <<[keyed EXCEPT !.template = createPTData(e[3][2])], TRUE>>
                   [] e[2] = "ARRAY" /\ third = "table" /\ sub.ok ->
                        <<[keyed EXCEPT !.template = item], TRUE>>
                   [] OTHER -> <<keyed, FALSE>>
    IN  IF entries = <<>> THEN [ok |-> TRUE, datas |-> datas]
        ELSE IF Len(e) < 2 THEN [ok |-> FALSE, datas |-> datas]
        ELSE IF ~ made[2] THEN [ok |-> FALSE, datas |-> Append(datas, made[1])]
        ELSE registerTable(Append(datas, made[1]), Tail(entries))

\* setDataValue: what is set stays so when a value further on raises an error.
RECURSIVE setDataValue(_, _)
setDataValue(d, t) ==
    LET RECURSIVE items(_, _), fields(_, _)
        items(done, todo) ==
            IF todo = <<>> THEN [ok |-> TRUE, datas |-> done]
            ELSE LET one == setDataValue(clone(d.template), Head(todo))
                 IN  IF one.ok THEN items(Append(done, one.data), Tail(todo))
                     ELSE [ok |-> FALSE, datas |-> done]
        fields(done, todo) ==
            IF todo = <<>> THEN [ok |-> TRUE, datas |-> done]
            ELSE LET p   == Head(todo)
                     one == IF p.key \in DOMAIN t[3] THEN setDataValue(p, t[3][p.key])
                            ELSE [ok |-> TRUE, data |-> resetValue(p)]
                 IN  IF one.ok THEN fields(Append(done, one.data), Tail(todo))
                     ELSE [ok |-> FALSE, datas |-> done \o <<one.data>> \o Tail(todo)]
        all == IF d.type = "ARRAY" THEN items(<<>>, t[2]) ELSE fields(<<>>, d.datas)
    IN  IF d.type = "VALUE"
          THEN IF t[1] = "number" THEN [ok |-> TRUE, data |-> [d EXCEPT !.value = t[2]]]
               ELSE [ok |-> FALSE, data |-> d]
        ELSE IF t[1] # "table" THEN [ok |-> FALSE, data |-> IF d.type = "ARRAY" THEN clear(d) ELSE d]
        ELSE [ok |-> all.ok, data |-> [d EXCEPT !.datas = all.datas]]

\* A script's protocol: a value, an array of values, a table, an array of tables, a value; and
\* then an entry that is wrong, which both ends stop at.
Description ==
    LET x == <<"table", << <<"x", "VALUE">> >> >>
    IN  << <<"a", "VALUE">>, <<"l", "ARRAY", <<"type", "VALUE">> >>, <<"t", "TABLE", x>>,
           <<"r", "ARRAY", x>>, <<"z", "VALUE">>, <<"w">>, <<"v", "VALUE">> >>

\* buildFromTable: the Protocol is the table the description's entries go to.
buildFromTable(entries) == createTable(registerTable(<<>>, entries).datas)

---------------------------------------------------------------------------------
ProtocolInit ==
    /\ pt_from = NULL
    /\ pt_data = Shape /\ pt_dead = FALSE
    /\ pt_said = NULL /\ pt_expect = NULL
    /\ pt_received = 0

setValue(v) == [createValue EXCEPT !.value = v]
Lists(S) == UNION {[1 .. n -> S] : n \in 0 .. MaxSent}
array(template, items) == [createArray(template) EXCEPT !.datas = items]

\* What a peer sends: the same shape, filled with setValue and addData.
Sent == {createTable(<<setValue(v),
                       array(createValue, [i \in DOMAIN vs |-> setValue(vs[i])]),
                       array(createArray(createValue), [i \in DOMAIN us |->
                                array(createValue, [j \in DOMAIN us[i] |-> setValue(us[i][j])])]),
                       setValue(v)>>) :
             v \in Contents, vs \in Lists(Contents), us \in Lists(Lists(Contents))}

\* Both ends are scripts, and make their objects from one description.
describe ==
    /\ pt_from = NULL /\ pt_received = 0
    /\ pt_from' = buildFromTable(Description)
    /\ pt_data' = buildFromTable(Description)
    /\ UNCHANGED <<pt_dead, pt_said, pt_expect, pt_received>>

\* The program puts values and items in the object itself (setValue, clear, addData), to send it.
fill(sent) ==
    /\ pt_from = NULL /\ ~ pt_dead
    /\ pt_received < MaxReceived
    /\ pt_received' = pt_received + 1
    /\ pt_data' = sent /\ pt_expect' = NULL
    /\ UNCHANGED <<pt_from, pt_dead, pt_said>>

\* Terminal::handleSessionRecv: unserialize into the registered object, whatever it returns, and
\* recvProtocol, which shows it.
receive(sent, cut) ==
    LET buffer == serialize(sent)
        len    == IF cut THEN Len(buffer) - 1 ELSE Len(buffer)
    IN  /\ pt_from = NULL /\ ~ pt_dead
        /\ pt_received < MaxReceived
        /\ pt_received' = pt_received + 1
        /\ UNCHANGED <<pt_from, pt_said>>
        /\ pt_data' = unserialize(pt_data, SubSeq(buffer, 1, len)).data
        /\ pt_dead' = ~ toString(pt_data')
        /\ pt_expect' = IF cut THEN NULL ELSE sent

\* What a script fills its object from: some of the fields, one of them perhaps of a wrong kind.
\* <<"nil">> is a field that is not there; the value 0 is what such a field stands for.
luaTable(f) == <<"table", <<>>, Restrict(f, {k \in DOMAIN f : f[k] # <<"nil">>})>>
LuaTables ==
    LET numbers == {<<"number", v>> : v \in Contents \ {0}}
        list(l) == <<"table", l, <<>> >>
        inner   == {luaTable([x |-> v]) : v \in numbers \union {<<"nil">>}}
    IN  {luaTable([a |-> v, l |-> l, t |-> t, r |-> r, z |-> v]) :
            v \in numbers \union {<<"nil">>},
            l \in {list(l) : l \in Lists(numbers \union {<<"bad">>})} \union {<<"nil">>},
            t \in inner \union {<<"bad">>, <<"nil">>},
            r \in {list(<<row>>) : row \in inner} \union {list(<<>>), <<"nil">>}}

\* What the table says of a data of the description: what it does not name is 0 or empty.
RECURSIVE Says(_, _, _)
Says(d, given, t) ==
    CASE d.type = "VALUE" -> [d EXCEPT !.value = IF given THEN t[2] ELSE 0]
      [] d.type = "ARRAY" -> [d EXCEPT !.datas = [i \in 1 .. IF given THEN Len(t[2]) ELSE 0 |->
                                                     setValue(t[2][i][2])]]
      [] d.type = "TABLE" ->
           [d EXCEPT !.datas = [i \in DOMAIN @ |->
               LET there == given /\ @[i].key \in DOMAIN t[3]
               IN  Says(@[i], there, IF there THEN t[3][@[i].key] ELSE t)]]

\* LuaProtocol::unserializeFromTable, and the send of what it filled; an error of Lua on the way
\* and nothing is sent.  An array of tables has lost their fields, so that the other end cannot
\* read it: a table with one promises nothing.  The other end's process may have ended.
send(t, cut) ==
    LET set    == setDataValue(pt_from, t)
        buffer == serialize(set.data)
        len    == IF cut THEN Len(buffer) - 1 ELSE Len(buffer)
        rows   == "r" \in DOMAIN t[3] /\ t[3]["r"][2] # <<>>
        said   == IF rows THEN NULL ELSE Says(buildFromTable(Description), TRUE, t)
    IN  /\ pt_from # NULL
        /\ pt_received < MaxReceived
        /\ pt_received' = pt_received + 1
        /\ pt_from' = set.data
        /\ pt_said' = IF set.ok THEN said ELSE NULL
        /\ IF set.ok /\ ~ pt_dead
             THEN /\ pt_data' = unserialize(pt_data, SubSeq(buffer, 1, len)).data
                  /\ pt_dead' = ~ toString(pt_data')
                  /\ pt_expect' = IF cut THEN NULL ELSE said
             ELSE UNCHANGED <<pt_data, pt_dead, pt_expect>>

\* The other end fills its object too, to send it.
fills(t) ==
    /\ pt_from # NULL /\ ~ pt_dead
    /\ pt_received < MaxReceived
    /\ pt_received' = pt_received + 1
    /\ pt_data' = setDataValue(pt_data, t).data /\ pt_expect' = NULL
    /\ UNCHANGED <<pt_from, pt_dead, pt_said>>

ProtocolNext == \/ describe
                \/ \E sent \in Sent : fill(sent) \/ \E cut \in BOOLEAN : receive(sent, cut)
                \/ \E t \in LuaTables : fills(t) \/ \E cut \in BOOLEAN : send(t, cut)

ProtocolSpec == ProtocolInit /\ [][ProtocolNext]_protocolVars

---------------------------------------------------------------------------------
\* What PTArray::unserialize makes of what was sent: each array has as many null pointers as
\* items (resize), and its items behind them (addData).
RECURSIVE Left(_)
Left(d) ==
    IF d.type = "VALUE" THEN d
    ELSE LET items == [i \in DOMAIN d.datas |-> Left(d.datas[i])]
         IN  [d EXCEPT !.datas = IF d.type = "ARRAY" THEN [i \in DOMAIN items |-> NULL] \o items
                                                     ELSE items]

\* A packet that arrives whole leaves in the object every value and every item its sender put
\* in, those null pointers in front of an array's items and nothing else: nothing of what the
\* object was filled with to be sent, or of a packet that was cut short before.  And what a
\* script sends is what its table says, nothing of a table before, also when that one raised an
\* error half way (Protocol.cpp's serialize, unserialize and clear, LuaProtocol.cpp's
\* setDataValue).
ReadsBack == /\ pt_expect # NULL => pt_data = Left(pt_expect)
             /\ pt_said # NULL => pt_from = pt_said
=================================================================================
