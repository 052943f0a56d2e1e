--------------------------------- MODULE KitParts -------------------------------
(***************************************************************************)
(* The parts of base/ and kit/ and Gear, each in a behaviour of its own:   *)
(* part says which one moves, and the others rest at one of their initial  *)
(* states.  None of them reads another's variables, so a property of one   *)
(* holds here exactly if it holds of that part alone.                      *)
(***************************************************************************)
EXTENDS QList, SyncQueue, Buffer, Collections, Timer, Ref, Gear, Emitter

VARIABLE part   \* the part that moves

kitVars == <<part, vars, syncVars, bufferVars, heapVars, arrayVars, timerVars, refVars,
             gearVars, emitterVars>>

\* Where a part may begin in several states, it rests in one of them.
KitInit ==
    /\ part \in {"qlist", "sync", "buffer", "heap", "array", "timer", "ref", "gear", "emitter"}
    /\ Init /\ (part # "qlist" => ~ ok /\ q_que = [i \in DOMAIN q_que |-> value]
                                       /\ value = CHOOSE v \in Type : TRUE)
    /\ SyncInit /\ (part # "sync" => s_use = "events")
    /\ BufferInit /\ HeapInit /\ ArrayInit
    /\ TimerInit /\ (part # "timer" => pos = [i \in Wheels |-> 0])
    /\ RefInit
    /\ GearInit /\ (part # "gear" => g_now = CHOOSE n \in Starts : TRUE)
    /\ EmitterInit

\* The part called name makes the step A, when it is the one that moves.
Turn(name, A, v) == IF part = name THEN A ELSE UNCHANGED v

KitNext ==
    /\ UNCHANGED part
    /\ Turn("qlist", Next, vars)
    /\ Turn("sync", SyncNext, syncVars)
    /\ Turn("buffer", BufferNext, bufferVars)
    /\ Turn("heap", HeapNext, heapVars)
    /\ Turn("array", ArrayNext, arrayVars)
    /\ Turn("timer", TimerNext, timerVars)
    /\ Turn("ref", RefNext, refVars)
    /\ Turn("gear", GearNext, gearVars)
    /\ Turn("emitter", EmitterNext, emitterVars)

KitSpec == KitInit /\ [][KitNext]_kitVars

\* The numbers Buffer writes.
BufferValues == {-16, 9}

\* The objects of Ref are alike.
Symmetry == Permutations(Objs)
=================================================================================
