------------------------------ MODULE Session ------------------------------
(***************************************************************************)
(* Connections, characters and player files of the Balderdash server.      *)
(*                                                                         *)
(* A connection (DESCRIPTOR_DATA) walks through the dialogue of nanny()    *)
(* and ends up owning a body (CHAR_DATA in char_list).  A body whose       *)
(* connection is lost stays in the world "link-dead" until a connection    *)
(* takes it over or char_update() makes it quit.  The player file is the   *)
(* only state that survives the process.                                   *)
(*                                                                         *)
(* The server is single threaded: every action below is one run of a       *)
(* handler, from the event that starts it to its return.                   *)
(***************************************************************************)
EXTENDS Integers, FiniteSets

CONSTANTS
    Desc,        \* descriptor structures
    Char,        \* character structures (the bound on new_char())
    Name,        \* player names
    None,        \* the NULL pointer, the missing file
    InitFile,    \* the player directory when the server is first started
    NewLock,     \* cfg.newlock: no new players
    MaxVer,      \* bound on the play recorded in a character
    FirstId,     \* last_pc_id when the server is first started
    MaxId,       \* bound on the identifiers given out by get_pc_id()
    MaxErrs,     \* saturation of count_entries_errors
    Holds,       \* what can keep a body from quitting: "fight", "deal"
    VoidTimer,   \* ticks without input before a body is put into limbo (12)
    QuitTimer,   \* ticks before a link-dead body quits (15)
    IdleTimer    \* ticks before an idle connected body quits (30)

ASSUME NoneAssumption == None \notin Desc /\ None \notin Char
ASSUME BoundAssumption ==
    /\ MaxVer \in Nat /\ MaxId \in Nat /\ FirstId \in 0..MaxId
    /\ MaxErrs \in Nat
ASSUME TimerAssumption ==
    /\ VoidTimer \in Nat /\ QuitTimer \in Nat /\ IdleTimer \in Nat
    /\ VoidTimer > 0 /\ VoidTimer <= QuitTimer /\ QuitTimer <= IdleTimer
ASSUME HoldsAssumption == Holds \subseteq {"fight", "deal"}
ASSUME NewLockAssumption == NewLock \in BOOLEAN

VARIABLES
    con,        \* d->connected; "FREE" when d is not in descriptor_list
    dchar,      \* d->character
    newer,      \* order of descriptor_list: <<d, e>> when d precedes e
    char,       \* the character structures; None when free
    char_list,  \* the player characters in the global list
    file,       \* the player directory
    nextId      \* last_pc_id

vars == <<con, dchar, newer, char, char_list, file, nextId>>
-----------------------------------------------------------------------------
(***************************************************************************)
(* The states of the login dialogue.                                       *)
(***************************************************************************)
\* Creation of a new character: what each answer can lead to.  An answer that
\* is refused leaves the connection where it is.
NextCon ==
    [ GET_NEW_PASSWORD     |-> {"CONFIRM_NEW_PASSWORD"},
      CONFIRM_NEW_PASSWORD |-> {"GET_NEW_PASSWORD", "GET_COLOR"},
      GET_COLOR            |-> {"GET_NEW_SEX"},
      GET_NEW_SEX          |-> {"GET_NEW_RACE"},
      GET_NEW_RACE         |-> {"GET_NEW_CLASS"},
      GET_NEW_CLASS        |-> {"GET_ALIGNMENT"},
      GET_ALIGNMENT        |-> {"DEFAULT_CHOICE"},
      DEFAULT_CHOICE       |-> {"GEN_GROUPS", "PICK_WEAPON"},
      GEN_GROUPS           |-> {"PICK_WEAPON"},
      PICK_WEAPON          |-> {"GET_QUESTION"},
      GET_QUESTION         |-> {"GET_CASES_1"},
      GET_CASES_1          |-> {"GET_CASES_2"},
      GET_CASES_2          |-> {"GET_CASES_3"},
      GET_CASES_3          |-> {"GET_CASES_4"},
      GET_CASES_4          |-> {"GET_CASES_5"},
      GET_CASES_5          |-> {"GET_EMAIL"},
      GET_EMAIL            |-> {"GET_ATHEIST"},
      GET_ATHEIST          |-> {"READ_MOTD"} ]

CreationStates == DOMAIN NextCon
NamelessStates == {"GET_CODEPAGE", "GET_NAME"}
MotdStates     == {"READ_IMOTD", "READ_MOTD"}
LoginStates    == {"GET_OLD_PASSWORD", "GET_NUM_REGANSWER", "BREAK_CONNECT",
                   "CONFIRM_NEW_NAME"} \cup CreationStates \cup MotdStates
ConStates      == {"FREE", "PLAYING"} \cup NamelessStates \cup LoginStates

\* What fwrite_char() puts into a player file.  "ver" stands for everything play
\* changes: it counts the changes, so that a lower value is an older character.
FileData == [id: 0..MaxId, level: 0..1, ver: 0..MaxVer, ans: BOOLEAN,
             errs: 0..MaxErrs, ath: BOOLEAN]

\* "hold" is what keeps a body from quitting: a fight, which ends with the body's
\* death or its removal to limbo, and a deal (a bid, a quest), which death does not
\* end.
CharData == [name: Name, desc: Desc \cup {None}, id: 0..MaxId, level: 0..1,
             ver: 0..MaxVer, ans: BOOLEAN, errs: 0..MaxErrs, ath: BOOLEAN,
             timer: 0..(IdleTimer + 1), voided: BOOLEAN, hold: SUBSET Holds]

ASSUME DataAssumption == None \notin CharData /\ None \notin FileData
ASSUME InitFileAssumption == InitFile \in [Name -> FileData \cup {None}]

TypeOK ==
    /\ con \in [Desc -> ConStates]
    /\ dchar \in [Desc -> Char \cup {None}]
    /\ newer \subseteq Desc \X Desc
    /\ char \in [Char -> CharData \cup {None}]
    /\ char_list \subseteq Char
    /\ file \in [Name -> FileData \cup {None}]
    /\ nextId \in 0..MaxId
-----------------------------------------------------------------------------
(***************************************************************************)
(* Helpers.                                                                *)
(***************************************************************************)
Live == {d \in Desc : con[d] # "FREE"}

\* CH(d) is a character called n.
Named(d, n) == dchar[d] # None /\ char[dchar[d]].name = n

\* The bodies called n, and the ones among them that have no connection.
Bodies(n)   == {c \in char_list : char[c].name = n}

\* Mutant: the body of a lost connection is not found again.
LinkDead_NotFound(n) == {}

LinkDead(n) == {c \in Bodies(n) : char[c].desc = None}

\* save_char_obj(): what the file holds afterwards.
Snap(c) == [id |-> c.id, level |-> c.level, ver |-> c.ver, ans |-> c.ans,
            errs |-> c.errs, ath |-> c.ath]
Saved(c) == [file EXCEPT ![c.name] = Snap(c)]

\* load_char_obj(): the character of connection d, from its file or blank.
Blank == [id |-> nextId + 1, level |-> 0, ver |-> 0, ans |-> FALSE, errs |-> 0,
          ath |-> FALSE]

\* Mutant: what play changed is not read back.
Load_WithoutPlay(d, n, f) ==
    [name |-> n, desc |-> d, id |-> f.id, level |-> f.level, ver |-> 0,
     ans |-> f.ans, errs |-> f.errs, ath |-> f.ath,
     timer |-> 0, voided |-> FALSE, hold |-> {}]

Load(d, n, f) ==
    [name |-> n, desc |-> d, id |-> f.id, level |-> f.level, ver |-> f.ver,
     ans |-> f.ans, errs |-> f.errs, ath |-> f.ath,
     timer |-> 0, voided |-> FALSE, hold |-> {}]

\* close_socket() for every connection of D: a playing character stays in the
\* world without a connection, any other character is freed.
CloseCon(D)   == [d \in Desc |-> IF d \in D THEN "FREE" ELSE con[d]]
CloseDchar(D) == [d \in Desc |-> IF d \in D THEN None ELSE dchar[d]]
CloseNewer(D) == {p \in newer : p[1] \notin D /\ p[2] \notin D}
Playing(D)    == {dchar[d] : d \in {e \in D : con[e] = "PLAYING"}}
NotPlaying(D) == {dchar[d] : d \in {e \in D : con[e] # "PLAYING"}}

\* Mutant: the body goes on answering to the closed connection.
CloseChar_KeepDesc(D) ==
    [c \in Char |-> IF c \in NotPlaying(D) THEN None ELSE char[c]]

CloseChar(D)  ==
    [c \in Char |-> IF c \in Playing(D) THEN [char[c] EXCEPT !.desc = None]
                    ELSE IF c \in NotPlaying(D) THEN None
                    ELSE char[c]]

CloseSocket(D) ==
    /\ con' = CloseCon(D)
    /\ dchar' = CloseDchar(D)
    /\ newer' = CloseNewer(D)
    /\ char' = CloseChar(D)
    /\ UNCHANGED char_list

\* Mutant: only the connection of the body itself is closed.
Toasted_OwnOnly(S) == {d \in Desc : dchar[d] \in S}

\* do_quit() for every body of S, which saves them or not: the bodies leave the
\* world, and so does every character a connection owns with one of their
\* identifiers ("toast evil cheating bastards"); these connections are closed.
Toasted(S) ==
    {d \in Desc : dchar[d] # None
                  /\ \E c \in S : char[dchar[d]].id = char[c].id}
Removed(S) == S \cup {dchar[d] : d \in Toasted(S)}

Quit(S) ==
    /\ con' = CloseCon(Toasted(S))
    /\ dchar' = CloseDchar(Toasted(S))
    /\ newer' = CloseNewer(Toasted(S))
    /\ char' = [c \in Char |-> IF c \in Removed(S) THEN None ELSE char[c]]
    /\ char_list' = char_list \ Removed(S)

\* can_quit(), as far as this module sees its reasons.
CanQuit(c) == char[c].hold = {}
-----------------------------------------------------------------------------
Memory == /\ con = [d \in Desc |-> "FREE"]
          /\ dchar = [d \in Desc |-> None]
          /\ newer = {}
          /\ char = [c \in Char |-> None]
          /\ char_list = {}

Init == /\ Memory
        /\ file = InitFile
        /\ nextId = FirstId

\* Moves connection d to dialogue state s and leaves the rest alone.
Goto(d, s) == /\ con' = [con EXCEPT ![d] = s]
              /\ UNCHANGED <<dchar, newer, char, char_list, file, nextId>>

-----------------------------------------------------------------------------
(***************************************************************************)
(* Connections come and go.                                                *)
(***************************************************************************)
\* init_descriptor(): the new connection goes to the head of the list.
Accept(d) ==
    /\ con[d] = "FREE"
    /\ con' = [con EXCEPT ![d] = "GET_CODEPAGE"]
    /\ newer' = newer \cup ({d} \X Live)
    /\ UNCHANGED <<dchar, char, char_list, file, nextId>>

\* The game loop finds an error on the socket, in its input or its output: a
\* playing character is saved before the connection is closed.
LinkFails(d) ==
    /\ con[d] # "FREE"
    /\ file' = IF con[d] = "PLAYING" THEN Saved(char[dchar[d]]) ELSE file
    /\ CloseSocket({d})
    /\ UNCHANGED nextId

\* The kick phase: only a connection that is not playing is closed for idling.
TimedOut(d) ==
    /\ con[d] \notin {"FREE", "PLAYING"}
    /\ CloseSocket({d})
    /\ UNCHANGED <<file, nextId>>

\* An immortal disconnects a player: nothing is saved.
Disconnect(d) ==
    /\ con[d] = "PLAYING"
    /\ CloseSocket({d})
    /\ UNCHANGED <<file, nextId>>
-----------------------------------------------------------------------------
(***************************************************************************)
(* The login dialogue, nanny().                                            *)
(***************************************************************************)
GetCodepage(d) == con[d] = "GET_CODEPAGE" /\ Goto(d, "GET_NAME")

\* The name n is typed.  "refused" stands for the bans, PLR_DENY, the address
\* list of the character and wizlock.  load_char_obj() allocates the character
\* before any of this is looked at; every refusal closes the connection, which
\* frees it.  check_reconnect(d, n, FALSE) makes a player with a body an old one
\* whether there is a file or not.
GetName(d, n, c, refused) ==
    LET f    == IF file[n] = None THEN Blank ELSE file[n]
        fOld == file[n] # None \/ Bodies(n) # {}
        next == IF refused \/ (~fOld /\ NewLock) THEN "FREE"
                ELSE IF fOld THEN "GET_OLD_PASSWORD" ELSE "CONFIRM_NEW_NAME"
    IN /\ con[d] = "GET_NAME"
       /\ char[c] = None
       /\ file[n] = None => nextId < MaxId
       /\ nextId' = IF file[n] = None THEN nextId + 1 ELSE nextId
       /\ IF next = "FREE"
          THEN CloseSocket({d})
          ELSE /\ con' = [con EXCEPT ![d] = next]
               /\ dchar' = [dchar EXCEPT ![d] = c]
               /\ char' = [char EXCEPT ![c] = Load(d, n, f)]
               /\ UNCHANGED <<newer, char_list>>
       /\ UNCHANGED file

\* An empty name closes the connection.
EmptyName(d) ==
    /\ con[d] = "GET_NAME"
    /\ CloseSocket({d})
    /\ UNCHANGED <<file, nextId>>

\* The right password.  A player without a registration answer goes straight to
\* the message of the day.
OldPassword(d) ==
    /\ con[d] = "GET_OLD_PASSWORD"
    /\ IF char[dchar[d]].ans
       THEN Goto(d, "GET_NUM_REGANSWER")
       ELSE \E s \in MotdStates : Goto(d, s)

\* The wrong password.
BadPassword(d) ==
    /\ con[d] = "GET_OLD_PASSWORD"
    /\ CloseSocket({d})
    /\ UNCHANGED <<file, nextId>>

\* The wrong letter of the registration answer: the failure is counted in the
\* character loaded when the name was typed, and that character is saved.
WrongAnswer(d) ==
    LET c    == char[dchar[d]]
        errs == IF c.errs = MaxErrs THEN MaxErrs ELSE c.errs + 1
    IN /\ con[d] = "GET_NUM_REGANSWER"
       /\ file' = Saved([c EXCEPT !.errs = errs])
       /\ CloseSocket({d})
       /\ UNCHANGED nextId

\* Mutant: only playing connections are looked at.
AlreadyPlaying_PlayingOnly(d, n) ==
    \E e \in Desc \ {d} : con[e] = "PLAYING" /\ Named(e, n)

\* check_playing(): another connection is past the password with this name.
AlreadyPlaying(d, n) ==
    \E e \in Desc \ {d} : /\ con[e] \notin {"GET_NAME", "GET_OLD_PASSWORD"}
                          /\ Named(e, n)

\* Mutant: the character loaded for d replaces the body.
TakeBody_KeepLoaded(d, c, ch) ==
    [ch EXCEPT ![dchar[d]] = None, ![c] = ch[dchar[d]]]

\* check_reconnect(d, n, TRUE), where it finds a body c without a connection: the
\* character loaded for d is freed and d takes the body.
TakeBody(d, c, ch) == [ch EXCEPT ![dchar[d]] = None,
                                 ![c].desc = d, ![c].timer = 0]

\* The right letter.
RightAnswer(d) ==
    LET n == char[dchar[d]].name
    IN /\ con[d] = "GET_NUM_REGANSWER"
       /\ \/ /\ AlreadyPlaying(d, n)
             /\ Goto(d, "BREAK_CONNECT")
          \/ /\ ~AlreadyPlaying(d, n)
             /\ \E c \in LinkDead(n) :
                  /\ con' = [con EXCEPT ![d] = "PLAYING"]
                  /\ dchar' = [dchar EXCEPT ![d] = c]
                  /\ char' = TakeBody(d, c, char)
             /\ UNCHANGED <<newer, char_list, file, nextId>>
          \/ /\ ~AlreadyPlaying(d, n)
             /\ LinkDead(n) = {}
             /\ \E s \in MotdStates : Goto(d, s)

\* "Yes" to taking over the character: every other connection that has the name
\* is closed and not saved, then the body is looked for again.
BreakConnectYes(d) ==
    LET n  == char[dchar[d]].name
        D  == {e \in Desc \ {d} : Named(e, n)}
        ch == CloseChar(D)
        B  == {c \in Bodies(n) : ch[c].desc = None}
    IN /\ con[d] = "BREAK_CONNECT"
       /\ newer' = CloseNewer(D)
       /\ \/ \E c \in B :
               /\ con' = [CloseCon(D) EXCEPT ![d] = "PLAYING"]
               /\ dchar' = [CloseDchar(D) EXCEPT ![d] = c]
               /\ char' = TakeBody(d, c, ch)
          \/ /\ B = {}
             /\ con' = [CloseCon(D) EXCEPT ![d] = "GET_NAME"]
             /\ dchar' = [CloseDchar(D) EXCEPT ![d] = None]
             /\ char' = [ch EXCEPT ![dchar[d]] = None]
       /\ UNCHANGED <<char_list, file, nextId>>

\* The connection goes back to the question for a name.
AskNameAgain(d) ==
    /\ con' = [con EXCEPT ![d] = "GET_NAME"]
    /\ dchar' = [dchar EXCEPT ![d] = None]
    /\ char' = [char EXCEPT ![dchar[d]] = None]
    /\ UNCHANGED <<newer, char_list, file, nextId>>

BreakConnectNo(d) == con[d] = "BREAK_CONNECT" /\ AskNameAgain(d)
ConfirmNameNo(d)  == con[d] = "CONFIRM_NEW_NAME" /\ AskNameAgain(d)

\* Mutant: only the connections asked to confirm the name are looked at.
Rivals_Confirming(d) ==
    {e \in Desc \ {d} : /\ con[e] = "CONFIRM_NEW_NAME"
                        /\ Named(e, char[dchar[d]].name)}

\* The connections whose presence makes a new name be refused: playing ones are
\* not looked at.
Rivals(d) == {e \in Desc \ {d} : /\ con[e] # "PLAYING"
                                 /\ Named(e, char[dchar[d]].name)}

\* The process ends and is started again: only the files are left.
Restart == /\ con' = [d \in Desc |-> "FREE"]
           /\ dchar' = [d \in Desc |-> None]
           /\ newer' = {}
           /\ char' = [c \in Char |-> None]
           /\ char_list' = {}
           /\ UNCHANGED nextId

\* e comes right before d in descriptor_list.
NextInList(e, d) == /\ <<e, d>> \in newer
                    /\ ~\E f \in Live : <<e, f>> \in newer /\ <<f, d>> \in newer

\* "Yes" to a new name.  At the first rival of the list the connection is closed,
\* and the walk goes on.  At a second rival close_socket() runs again and looks in
\* descriptor_list for a descriptor that is no longer there: it follows the NULL at
\* the end.  But where d is the next in the list, the walk has kept a pointer to it
\* and wanders off into the freed descriptors: whether one of them still seems to be
\* a rival depends on what is left in freed memory.
ConfirmNameYes(d) ==
    /\ con[d] = "CONFIRM_NEW_NAME"
    /\ \/ /\ Rivals(d) = {}
          /\ Goto(d, "GET_NEW_PASSWORD")
       \/ \E e \in Rivals(d) :
            /\ \A f \in Rivals(d) \ {e} : <<e, f>> \in newer
            /\ \/ /\ Rivals(d) = {e} \/ NextInList(e, d)
                  /\ CloseSocket({d})
                  /\ UNCHANGED <<file, nextId>>
               \/ /\ Rivals(d) # {e} \/ NextInList(e, d)
                  /\ Restart
                  /\ UNCHANGED file

\* One step of the creation of a character.
Create(d) ==
    /\ con[d] \in CreationStates
    /\ \E s \in NextCon[con[d]] : con' = [con EXCEPT ![d] = s]
    /\ \/ /\ con[d] = "GET_QUESTION"
          /\ char' = [char EXCEPT ![dchar[d]].ans = TRUE]
       \/ /\ con[d] = "GET_ATHEIST"
          /\ \E a \in BOOLEAN : char' = [char EXCEPT ![dchar[d]].ath = a]
       \/ /\ con[d] \notin {"GET_QUESTION", "GET_ATHEIST"}
          /\ char' = char
    /\ UNCHANGED <<dchar, newer, char_list, file, nextId>>

ReadImotd(d) == con[d] = "READ_IMOTD" /\ Goto(d, "READ_MOTD")

\* The message of the day has been read.  A new character enters the world as it
\* is.  Any other one is saved if its file counts failures to answer, then thrown
\* away and loaded again: the structure it gave back is the one new_char() takes.
\* If the file has gone the connection is closed.
ReadMotd(d) ==
    LET c  == dchar[d]
        n  == char[c].name
        f  == IF char[c].errs > 0 THEN Saved([char[c] EXCEPT !.errs = 0]) ELSE file
    IN /\ con[d] = "READ_MOTD"
       /\ \/ /\ char[c].level = 0
             /\ char' = [char EXCEPT ![c].level = 1]
             /\ UNCHANGED file
          \/ /\ char[c].level # 0
             /\ f[n] # None
             /\ char' = [char EXCEPT ![c] = Load(d, n, f[n])]
             /\ file' = f
       /\ con' = [con EXCEPT ![d] = "PLAYING"]
       /\ char_list' = char_list \cup {c}
       /\ UNCHANGED <<dchar, newer, nextId>>

FileGone(d) ==
    /\ con[d] = "READ_MOTD"
    /\ char[dchar[d]].level # 0
    /\ char[dchar[d]].errs = 0
    /\ file[char[dchar[d]].name] = None
    /\ CloseSocket({d})
    /\ UNCHANGED <<file, nextId>>
-----------------------------------------------------------------------------
(***************************************************************************)
(* Play.                                                                   *)
(***************************************************************************)
\* A command of a connected player: it ends the idling (stop_idling()), may
\* change the character and may start a fight or a deal.
Command(d) ==
    LET c == dchar[d]
    IN /\ con[d] = "PLAYING"
       /\ \E v \in {char[c].ver, char[c].ver + 1}, h \in SUBSET Holds :
            /\ v <= MaxVer
            /\ char' = [char EXCEPT ![c].ver = v, ![c].timer = 0,
                                    ![c].voided = FALSE,
                                    ![c].hold = char[c].hold \cup h]
       /\ UNCHANGED <<con, dchar, newer, char_list, file, nextId>>

\* The world acts on a body, which need not be connected.  Nobody reaches a body
\* that has been put into limbo.
WorldActs(c) ==
    /\ c \in char_list
    /\ ~char[c].voided
    /\ \E v \in {char[c].ver, char[c].ver + 1}, h \in SUBSET (Holds \cap {"fight"}) :
         /\ v <= MaxVer
         /\ char' = [char EXCEPT ![c].ver = v, ![c].hold = char[c].hold \cup h]
    /\ UNCHANGED <<con, dchar, newer, char_list, file, nextId>>

\* A fight or a deal of a body ends.
Settle(c) ==
    /\ c \in char_list
    /\ \E h \in char[c].hold : char' = [char EXCEPT ![c].hold = char[c].hold \ {h}]
    /\ UNCHANGED <<con, dchar, newer, char_list, file, nextId>>

\* do_save().
Save(c) ==
    /\ c \in char_list
    /\ file' = Saved(char[c])
    /\ UNCHANGED <<con, dchar, newer, char, char_list, nextId>>

\* do_reg_answer(): a player without a registration answer gives one.
RegAnswer(d) ==
    /\ con[d] = "PLAYING"
    /\ ~char[dchar[d]].ans
    /\ char' = [char EXCEPT ![dchar[d]].ans = TRUE]
    /\ UNCHANGED <<con, dchar, newer, char_list, file, nextId>>

\* do_quit() as a command.
QuitCommand(d) ==
    /\ con[d] = "PLAYING"
    /\ CanQuit(dchar[d])
    /\ file' = Saved(char[dchar[d]])
    /\ Quit({dchar[d]})
    /\ UNCHANGED nextId

\* do_delete(), confirmed with the registration answer: do_quit() and unlink().
DeleteCommand(d) ==
    LET c == dchar[d]
    IN /\ con[d] = "PLAYING"
       /\ char[c].ans
       /\ CanQuit(c)
       /\ file' = [file EXCEPT ![char[c].name] = None]
       /\ Quit({c})
       /\ UNCHANGED nextId

\* raw_kill() of a player.  The fight is over; a dead body goes back to the temple
\* and is saved.
Dead(c) ==
    [char[c] EXCEPT !.ver = IF @ = MaxVer THEN MaxVer ELSE @ + 1,
                    !.hold = @ \ {"fight"}]

Die(c) ==
    /\ c \in char_list
    /\ ~char[c].ath
    /\ char' = [char EXCEPT ![c] = Dead(c)]
    /\ file' = Saved(Dead(c))
    /\ UNCHANGED <<con, dchar, newer, char_list, nextId>>

\* raw_kill() of an atheist: do_quit(ch, "delete"), which can_quit() may refuse,
\* and unlink() in either case.
AtheistDies(c) ==
    /\ c \in char_list
    /\ char[c].ath
    /\ file' = [file EXCEPT ![char[c].name] = None]
    /\ \/ /\ Dead(c).hold = {}
          /\ Quit({c})
       \/ /\ Dead(c).hold # {}
          /\ char' = [char EXCEPT ![c] = Dead(c)]
          /\ UNCHANGED <<con, dchar, newer, char_list>>
    /\ UNCHANGED nextId
-----------------------------------------------------------------------------
(***************************************************************************)
(* The tick, char_update(): every body idles one tick more; one that has   *)
(* idled long enough goes to limbo, which ends its fight, and then quits   *)
(* if it may; the bodies that are left are saved.  Where several bodies    *)
(* have one name, any of them may be the last one saved.                   *)
(***************************************************************************)

\* Mutant: a body without a connection does not idle.
Ticked_LinkedOnly(c) ==
    IF char[c].desc = None THEN char[c]
    ELSE [char[c] EXCEPT !.timer = IF @ > IdleTimer THEN @ ELSE @ + 1]

Ticked(c) ==
    LET t    == IF char[c].timer > IdleTimer THEN char[c].timer ELSE char[c].timer + 1
        void == t >= VoidTimer /\ ~char[c].voided
    IN [char[c] EXCEPT !.timer = t,
                       !.voided = char[c].voided \/ void,
                       !.hold = IF void THEN @ \ {"fight"} ELSE @]

Quitting ==
    {c \in char_list :
        LET b == Ticked(c)
        IN /\ \/ b.desc = None /\ b.timer >= QuitTimer
              \/ b.timer > IdleTimer
           /\ b.hold = {}}

CharUpdate ==
    LET gone   == Removed(Quitting)
        saved  == (char_list \ gone) \cup Quitting
    IN /\ \E last \in [Name -> saved \cup {None}] :
            /\ \A n \in Name : IF Bodies(n) \cap saved = {}
                               THEN last[n] = None
                               ELSE last[n] \in Bodies(n)
            /\ file' = [n \in Name |-> IF last[n] = None THEN file[n]
                                       ELSE Snap(Ticked(last[n]))]
       /\ con' = CloseCon(Toasted(Quitting))
       /\ dchar' = CloseDchar(Toasted(Quitting))
       /\ newer' = CloseNewer(Toasted(Quitting))
       /\ char' = [c \in Char |-> IF c \in gone THEN None
                                  ELSE IF c \in char_list THEN Ticked(c)
                                  ELSE char[c]]
       /\ char_list' = char_list \ gone
       /\ UNCHANGED nextId
-----------------------------------------------------------------------------
(***************************************************************************)
(* The end of the process.                                                 *)
(***************************************************************************)
\* for_reboot(): every connection that has a character, from the head of the
\* list, has it saved and is closed, whatever state of the dialogue it is in: for
\* each name the connection that was accepted first is saved last.  The bodies
\* without a connection are not saved.
Reboot ==
    /\ \E last \in [Name -> Desc \cup {None}] :
         /\ \A n \in Name :
              LET D == {d \in Desc : Named(d, n)}
              IN IF D = {} THEN last[n] = None
                 ELSE /\ last[n] \in D
                      /\ \A d \in D \ {last[n]} : <<d, last[n]>> \in newer
         /\ file' = [n \in Name |-> IF last[n] = None THEN file[n]
                                    ELSE Snap(char[dchar[last[n]]])]
    /\ Restart

\* The process dies.  A file is written beside the old one and renamed over it, so
\* that each file is what the last save that returned made it.
Crash == Restart /\ UNCHANGED file
-----------------------------------------------------------------------------
Login(d) ==
    \/ Accept(d) \/ GetCodepage(d) \/ EmptyName(d)
    \/ \E n \in Name, c \in Char, r \in BOOLEAN : GetName(d, n, c, r)
    \/ OldPassword(d) \/ BadPassword(d) \/ RightAnswer(d) \/ WrongAnswer(d)
    \/ BreakConnectYes(d) \/ BreakConnectNo(d)
    \/ ConfirmNameYes(d) \/ ConfirmNameNo(d) \/ Create(d)
    \/ ReadImotd(d) \/ ReadMotd(d) \/ FileGone(d)

Close(d) == LinkFails(d) \/ TimedOut(d) \/ Disconnect(d)

Player(d) ==
    Command(d) \/ RegAnswer(d) \/ QuitCommand(d) \/ DeleteCommand(d)

Body(c) == WorldActs(c) \/ Settle(c) \/ Save(c) \/ Die(c) \/ AtheistDies(c)

Next == \/ \E d \in Desc : Login(d) \/ Close(d) \/ Player(d)
        \/ \E c \in Char : Body(c)
        \/ CharUpdate \/ Reboot \/ Crash

Spec == Init /\ [][Next]_vars

\* The tick comes again and again, and what keeps a body from quitting ends: a
\* fight by death, flight or limbo, an auction and a quest by their own timers.
Fairness == WF_vars(CharUpdate) /\ \A c \in Char : WF_vars(Settle(c))

FairSpec == Spec /\ Fairness
-----------------------------------------------------------------------------
(***************************************************************************)
(* Properties of every server.                                             *)
(***************************************************************************)
\* The two directions of the link between connections and characters agree: a
\* playing connection owns a body of the world and is the one this body answers
\* to; a connection that is logging in owns a character outside the world; no
\* character outlives its owner (comm.c, close_socket, check_reconnect).
LinkConsistent ==
    /\ \A d \in Desc :
         /\ con[d] = "PLAYING" => dchar[d] \in char_list
         /\ con[d] \in LoginStates => dchar[d] \in Char \ char_list
         /\ con[d] \in NamelessStates \cup {"FREE"} => dchar[d] = None
         /\ dchar[d] # None => char[dchar[d]] # None /\ char[dchar[d]].desc = d
    /\ \A c \in Char :
         /\ c \in char_list => char[c] # None
         /\ char[c] # None => \/ char[c].desc = None /\ c \in char_list
                              \/ char[c].desc # None /\ dchar[char[c].desc] = c

\* Two connections never create a character with one name side by side: this is
\* what the refusal of a new name that a rival holds achieves.
OneCreation ==
    \A d, e \in Desc : /\ con[d] \in CreationStates /\ con[e] \in CreationStates
                      /\ char[dchar[d]].name = char[dchar[e]].name
                      => d = e

-----------------------------------------------------------------------------
(***************************************************************************)
(* Properties of a closed server: no new players, and every player has a   *)
(* registration answer and believes in gods.                               *)
(***************************************************************************)
Registered ==
    /\ NewLock
    /\ \A n \in Name : InitFile[n] # None =>
          /\ InitFile[n].ans
          /\ ~InitFile[n].ath
          /\ InitFile[n].level = 1

\* "Check if already playing": a player is in the world once, and nobody waits to
\* enter the world as a player who is in it or is waited for by another.
OneBodyPerName ==
    Registered =>
        \A c1, c2 \in char_list : char[c1].name = char[c2].name => c1 = c2

OneEntrance ==
    Registered =>
        \A d \in Desc : con[d] \in MotdStates =>
            LET n == char[dchar[d]].name
            IN /\ Bodies(n) = {}
               /\ \A e \in Desc : con[e] \in MotdStates /\ Named(e, n) => d = e

\* A body is never older than its file, so that saving it loses nothing.
BodyAheadOfFile ==
    Registered =>
        \A c \in char_list : /\ file[char[c].name] # None
                             /\ char[c].ver >= file[char[c].name].ver

\* Whoever is about to enter the world was loaded from what the file still holds:
\* a character that quits takes the stale copies of itself along with it.
MotdFresh ==
    Registered =>
        \A d \in Desc : con[d] \in MotdStates =>
            LET c == char[dchar[d]]
            IN file[c.name] # None /\ file[c.name].ver = c.ver

\* Bodies and the copies that are about to become bodies are as new as the file.
CopiesFresh == BodyAheadOfFile /\ MotdFresh

\* A player file goes back to an older character only when a connection that was
\* logging in is closed and its copy of the character is saved.
RollBackOnlyByLogin ==
    [][Registered =>
        \A n \in Name :
              (/\ file[n] # None /\ file'[n] # None
               /\ file'[n].ver < file[n].ver)
              => \E d \in Desc : /\ con[d] \in LoginStates /\ con'[d] = "FREE"
                                 /\ Named(d, n)
                                 /\ file'[n].ver = char[dchar[d]].ver]_vars

-----------------------------------------------------------------------------
(***************************************************************************)
(* What the comments and the messages of the program say, and the code     *)
(* does not do.                                                            *)
(***************************************************************************)
\* "check names of people playing": the check of a new name closes the connection
\* it refuses, and no other, even where the walk along the list is sound.
RefusalIsLocal ==
    [][\A d \in Desc :
          ConfirmNameYes(d) /\ (\A e \in Rivals(d) : ~NextInList(e, d))
          => \A e \in Desc \ {d} : con'[e] = con[e]]_vars

-----------------------------------------------------------------------------
\* A body without a connection is taken over by one or leaves the world.
LinkDeadLeaves ==
    \A c \in Char : []<>~(c \in char_list /\ char[c].desc = None)
=============================================================================
