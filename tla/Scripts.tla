------------------------------ MODULE Scripts -------------------------------
(***************************************************************************)
(* The programs of mobiles, objects and rooms (mob_prog.c): the reading of *)
(* one program line by line, with its stack of if-else-endif blocks, the   *)
(* programs that are started by the commands of other programs, and the    *)
(* characters that mobiles, objects and rooms remember for their programs. *)
(*                                                                         *)
(* A program has no jumps, so that its next line is any line: the module   *)
(* does not say what the builders of the areas have written, and what they *)
(* have written wrong is among it.                                         *)
(***************************************************************************)
EXTENDS Integers, Sequences

CONSTANTS
    PC, Mob,       \* the CHAR_DATA structures of players and of mobiles
    Thing,         \* the objects and rooms that have programs
    Null,          \* the null pointer
    MaxNested,     \* MAX_NESTED_LEVEL (15)
    MaxCall        \* MAX_CALL_LEVEL (20)

ASSUME ScriptsAssumption ==
    /\ MaxNested \in Nat \ {0} /\ MaxCall \in Nat
    /\ Null \notin PC \cup Mob \cup Thing /\ Mob \cap Thing = {}

VARIABLES
    stack,         \* the activations of program_flow(), the last one on top
    call_level,    \* the static counter of program_flow()
    Show_output,   \* whether anybody is sent anything
    target,        \* mprog_target, oprog_target, rprog_target
    living,        \* the structures in char_list
    lost,          \* history: malformed programs so far
    cut            \* history: the last program that ended did not come to its end

world == <<target, living>>
scriptVars == <<stack, call_level, Show_output, world, lost, cut>>

Char   == PC \cup Mob
Self   == Mob \cup Thing
Levels == 0..MaxNested - 1
Frame  == [self  : Self,                               \* mob, obj or room
           ch    : Char \cup {Null},                   \* who has triggered it
           level : Levels,
           state : [Levels -> {"begin", "in", "end"}], \* of the blocks
           cond  : [Levels -> BOOLEAN]]

ScriptTypeOK ==
    /\ stack \in Seq(Frame)
    /\ call_level \in 0..MaxCall
    /\ Show_output \in BOOLEAN
    /\ target \in [Self -> Char \cup {Null}]
    /\ living \subseteq Char
    /\ lost \in Nat /\ cut \in BOOLEAN

ScriptInit ==
    /\ stack = <<>> /\ call_level = 0 /\ Show_output = TRUE
    /\ target = [s \in Self |-> Null]
    /\ living = Char
    /\ lost = 0 /\ cut = FALSE

-----------------------------------------------------------------------------
(* The program that is being read *)

Running == stack # <<>>
Top     == stack[Len(stack)]
Level   == Top.level

Now(f) == [stack EXCEPT ![Len(stack)] = f]

\* Whether a line that is not a control word is carried out.
Carried == Level = 0 \/ Top.cond[Level]

\* "or", "and", "else" and "endif" belong to an "if" that is open.
InIf == Level > 0 /\ Top.state[Level - 1] = "begin"

\* The condition is not looked at where the block around is not carried out.
Dead == Level > 0 /\ ~Top.cond[Level - 1]

Popped == SubSeq(stack, 1, Len(stack) - 1)

\* program_flow() returns; what is left of the program is not read if it is cut short.
Returns(short) ==
    /\ stack' = Popped
    /\ call_level' = call_level - 1
    /\ cut' = short
    /\ UNCHANGED <<world, lost>>

\* Most errors of the author make it return past call_level--.
GivesUp ==
    /\ stack' = Popped
    /\ lost' = lost + 1 /\ cut' = TRUE
    /\ UNCHANGED <<call_level, Show_output, world>>

\* What the lines that end no program leave alone.
Goes == UNCHANGED <<call_level, lost, cut>>

-----------------------------------------------------------------------------
(* What happens to characters, and to the pointers of those who remember them *)

\* extract_char(): those who are in the world forget who leaves it.
Forgotten(S) ==
    [h \in Self |-> IF h \in Mob \cap living /\ target[h] \in S THEN Null ELSE target[h]]

\* Mutant: nobody forgets.
Extract_Remembered(S) ==
    /\ S # {} /\ S \subseteq living
    /\ living' = living \ S
    /\ UNCHANGED target

\* Somebody is extracted, with his pets.
Extract(S) ==
    /\ S # {} /\ S \subseteq living
    /\ living' = living \ S
    /\ target' = Forgotten(S)

\* extract_char_for_quit() asks whom the player remembers, who remembers nobody, and
\* not who remembers him.
QuitGame(p, pets) ==
    /\ p \in living \cap PC /\ pets \subseteq living \cap Mob
    /\ living' = living \ ({p} \cup pets)
    /\ target' = Forgotten(pets)

\* A login or create_mobile(), in a structure that is free.
Create(c) ==
    /\ c \notin living
    /\ living' = living \cup {c}
    /\ target' = IF c \in Mob THEN [target EXCEPT ![c] = Null] ELSE target

Lives ==
    \/ \E S \in SUBSET living : Extract(S)
    \/ \E p \in PC, pets \in SUBSET Mob : QuitGame(p, pets)
    \/ \E c \in Char : Create(c)

\* do_mpremember(), do_opremember(), do_rpremember(), and "forget".
Remembers ==
    /\ \E c \in living \cup {Null} : target' = [target EXCEPT ![Top.self] = c]
    /\ UNCHANGED living

-----------------------------------------------------------------------------
(* The lines *)

\* What cmd_eval_mob(), cmd_eval_obj() and cmd_eval_room() leave behind: who has no
\* target has one now, whoever has triggered the program; "istarget" of a mobile
\* takes the one it asks about.
Evaluates ==
    /\ \/ UNCHANGED target
       \/ /\ target[Top.self] = Null
          /\ target' = [target EXCEPT ![Top.self] = Top.ch]
       \/ /\ Top.self \in Mob
          /\ \E c \in living \cup {Top.ch} : target' = [target EXCEPT ![Top.self] = c]
    /\ UNCHANGED living

Opened == [Top EXCEPT !.state[Level] = "begin", !.level = Level + 1]

If ==
    /\ Running
    /\ Top.state[Level] # "begin" /\ Level + 1 < MaxNested
    /\ \/ /\ ~Top.cond[Level]
          /\ stack' = Now([Opened EXCEPT !.cond[Level + 1] = FALSE])
          /\ UNCHANGED world
       \/ /\ Top.cond[Level]
          /\ \E e \in BOOLEAN :
               stack' = Now([Opened EXCEPT !.cond[Level + 1] = e,
                                           !.state[Level + 1] = "end"])
          /\ Evaluates
    /\ Goes /\ UNCHANGED Show_output

\* "or" and "and", anywhere in a block.
OrAnd ==
    /\ Running /\ InIf /\ ~Dead
    /\ \E e \in BOOLEAN : stack' = Now([Top EXCEPT !.cond[Level] = e])
    /\ Evaluates
    /\ Goes /\ UNCHANGED Show_output

\* Mutant: "else" turns whatever block it is in.
Else_Always ==
    /\ Running /\ InIf
    /\ stack' = Now([Top EXCEPT !.state[Level] = "in", !.cond[Level] = ~@])
    /\ Goes /\ UNCHANGED <<Show_output, world>>

Else ==
    /\ Running /\ InIf /\ ~Dead
    /\ stack' = Now([Top EXCEPT !.state[Level] = "in", !.cond[Level] = ~@])
    /\ Goes /\ UNCHANGED <<Show_output, world>>

Endif ==
    /\ Running /\ InIf
    /\ stack' = Now([Top EXCEPT !.cond[Level] = TRUE,
                                !.state = [@ EXCEPT ![Level] = "in", ![Level - 1] = "end"],
                                !.level = Level - 1])
    /\ Goes /\ UNCHANGED <<Show_output, world>>

\* "output true" and "output false" are not asked where they stand; do_mpoload() is
\* silent for a while and leaves the output on.
Output ==
    /\ Running
    /\ Show_output' \in BOOLEAN
    /\ Goes /\ UNCHANGED <<stack, world>>

\* Mutant: the call is not counted back.
Break_Counted ==
    /\ Running /\ Carried
    /\ stack' = Popped /\ cut' = TRUE
    /\ UNCHANGED <<call_level, Show_output, world, lost>>

\* "return", "break" and "end".
Break == Running /\ Carried /\ Returns(TRUE) /\ UNCHANGED Show_output

\* The end of the text, or an empty line.
Ends == Running /\ Returns(FALSE) /\ Show_output' = TRUE

\* Two errors count the level back: an "if" where a block has begun already, an "endif"
\* without "if".
Refused ==
    /\ Running
    /\ Top.state[Level] = "begin" \/ ~InIf
    /\ Returns(TRUE) /\ UNCHANGED Show_output

\* Blocks too deep; "or", "and" or "else" without "if"; "if", and then "or" and "and",
\* with a condition that there is not.
Malformed ==
    /\ Running
    /\ Level + 1 = MaxNested \/ ~InIf \/ Top.cond[Level] \/ (InIf /\ ~Dead)
    /\ GivesUp

-----------------------------------------------------------------------------
(* Commands *)

NewFrame(s, c) ==
    [self |-> s, ch |-> c, level |-> 0,
     state |-> [l \in Levels |-> "in"], cond |-> [l \in Levels |-> TRUE]]

\* program_flow() is called, by a trigger or a "call": in activations below.
Starts(below) ==
    /\ call_level < MaxCall
    /\ \E s \in (Mob \cap living) \cup Thing, c \in living \cup {Null} :
         stack' = Append(below, NewFrame(s, c))
    /\ call_level' = call_level + 1
    /\ UNCHANGED world

\* One thing that a command leads to: a line may be followed by another of its kind.
\* A mobile that has left the world in a command goes on with its program.
Command ==
    /\ Running /\ Carried
    /\ LET read == Now([Top EXCEPT !.state[Level] = "in"])
       IN \/ /\ stack' = read
             /\ Lives \/ Remembers \/ UNCHANGED world
             /\ UNCHANGED call_level
          \/ Starts(read)
    /\ UNCHANGED <<Show_output, lost, cut>>

\* Between programs.
Outside ==
    /\ ~Running
    /\ \/ Lives /\ UNCHANGED <<stack, call_level>>
       \/ Starts(stack)
    /\ UNCHANGED <<Show_output, lost, cut>>

ScriptNext ==
    \/ If \/ OrAnd \/ Else \/ Endif \/ Output \/ Break \/ Ends
    \/ Refused \/ Malformed \/ Command \/ Outside

ScriptSpec == ScriptInit /\ [][ScriptNext]_scriptVars

-----------------------------------------------------------------------------
\* Exactly the blocks around the line are open, and none is carried out within one that
\* is not.
Nested(f) ==
    /\ f.cond[0]
    /\ \A l \in Levels : f.state[l] = "begin" <=> l < f.level
    /\ \A l \in 1..f.level : f.cond[l] => f.cond[l - 1]

\* The blocks of a program nest as they are written, whatever conditions, "else" and
\* "endif" were passed over: so "if" is never misplaced, and no command is carried out
\* that the author has put under a condition that does not hold.
BlocksNest == ScriptTypeOK /\ \A i \in DOMAIN stack : Nested(stack[i])

\* However programs call each other and end, the counter of calls is their number, but
\* for one level that each malformed program has taken with it, for good; and between
\* programs the game is silent only if the last one was cut short.
LeavesClean ==
    /\ call_level = Len(stack) + lost
    /\ ~Running /\ ~Show_output => cut

\* Who is remembered and in the world no more.
Stale == {h \in Thing \cup (Mob \cap living) : target[h] \notin living \cup {Null}}

\* A mobile remembers somebody who has left the world only if it was a player who
\* quit, or somebody who has left in the course of the very program that asks about
\* him; an object or a room, whoever has left.
StaleOnlyBy ==
    [][\A h \in Stale' \ Stale :
         \/ h \in Thing
         \/ \E p \in PC, pets \in SUBSET Mob : QuitGame(p, pets) /\ target[h] = p
         \/ Running /\ h = Top.self /\ Top.ch = target'[h] /\ Top.ch \notin living]_scriptVars
=============================================================================
