# Balderdash: specifications and proofs

Balderdash is a multi-user dungeon server in C, a descendant of ROM 2.4. One
process serves all players from one thread: a loop that polls the sockets four
times a second, runs one command per connection, and moves the world. What is
hard in it is not parallelism but *interleaving at the level of handlers*: the
login dialogue of one connection, the play of another, the loss of a third, the
tick, a reboot and a crash all meet in a few global lists, in pointers from one
structure to another, and in one player file per character. This directory models
these parts in TLA+, checks them with TLC and proves the central invariants with
TLAPS.

Paths below are relative to the repository's `src/` directory (the C sources are
Windows-1251).

## 1. Inventory

| part | code | state it keeps | operations | what makes it correct |
|---|---|---|---|---|
| login dialogue | `comm.c` `nanny`, `check_reconnect`, `check_playing` | `d->connected`, `d->character` | one step per line typed | a player is in the world once; what enters the world is what was saved |
| connections | `comm.c` `init_descriptor`, `close_socket`, `recycle.c` | `descriptor_list`, `descriptor_free` | accept, close, timeout | the two directions of the link agree; nothing is freed twice |
| game loop | `comm.c` `game_loop_unix` | cursor of each loop, `idle_tics` | poll, kick, input, update, output | every connection is served in every pulse; a loop follows a closed descriptor in no way but one |
| characters in the world | `char_list`, `handler.c`, `recycle.c` | `CHAR_DATA`, rooms, followers, fights | enter, leave, die, quit | no pointer survives what it points to |
| player files | `save.c` | one file per name, written beside and renamed | save, load, unlink | saving never makes a character older |
| tick and pulses | `update.c` | `pulse_*`, `ch->timer` | `char_update`, `update_handler`, ... | the walk along `char_list` survives what it removes |
| auctions | `act_obj.c`, `update.c` | `auctions[]` | put up, bid, cancel, tick | no money is made, and a lot has its object and its seller |
| bank and exchange | `bank.c`, `act_obj.c` | purse and account | deposit, withdraw, transfer | money is conserved |
| groups, followers, pets | `act_comm.c`, `mount.c`, `summoner.c` | `master`, `leader`, `pet` | follow, group, charm | links are mutual, and acyclic but where a script makes a rider follow its horse |
| combat | `fight.c`, `fight2.c` | `fighting`, position, hit points | rounds, flee, death | fights end with one of the fighters |
| limits of objects | `limit.c` | `limits[]`: how many there are, how many may be | made, moved, destroyed, saved with a player | the count follows the objects in the world and in the files |
| coins | `handler.c`, `act_obj.c`, `act_comm.c` | purses, objects of money | drop, get, give, split, steal, buy, die | coins are worth what they were made of, but in the places that are named |
| quests | `quest.c`, `save.c` | fields of the player, `group_quest` of the giver | ask, do, hand in, quit, tick | a group has one quest, and it ends |
| clans | `clan.c`, `db.c` | `clan_table`, `clans.txt`, a field of the player | enter, accept, expel, name, declare | tables agree with the players and with what is read of their files |
| scripts | `mob_prog.c`, `mob_cmds.c` | blocks and depth of calls, `Show_output`, remembered targets | triggers, `call`, lines | blocks nest, calls are counted back, no target dangles |
| marriage, houses, notes, arena | one file each | per-player fields, files | commands | the two sides of a couple agree; a note reaches whom it names |
| editors | `olc*.c`, `string.c` | `d->editor`, edit flags | edit sessions | one editor per thing |
| spells, skills | `magic*.c`, `skills.c`, `effects.c` | affects, cooldowns | several hundred formulas | mostly arithmetic on one character |
| database | `db.c`, `db2.c`, `load.c`, `dbdump.c` | prototypes, resets | load once, reset | file formats |
| compression, telnet, proxy and name lookup | `mccp.c`, `check_proxy.c`, `rdns_cache.c` | per-connection streams | negotiate | library protocols; the lookup threads are compiled out |

The parts interact through direct calls and shared lists. The ones that hurt:

* every handler may call `close_socket`, directly or through the overflow of an
  output buffer in `write_to_buffer`, while a loop over the same list runs;
* `do_quit`, death and the tick extract characters while loops over `char_list`
  and over the people of a room run;
* a player exists in up to three forms at once: the file, the body in the world,
  and copies loaded by connections that are still in the login dialogue.

## 2. Plan

The order puts first what everything else hangs on: who is in the world, and
which pointers say so.

| step | modules | content | state |
|---|---|---|---|
| 1 | `Session`, `Presence`, `SessionPresence`, `SessionProofs` | login, link loss, takeover, quit, delete, death, tick, reboot, crash; the abstract promise to a player | done |
| 2 | `GameLoop`, `Lists`, `ListProofs` | the pulse and the two descriptor lists | done |
| 3 | `Auction`, `AuctionProofs`, `Totals`, `TotalProofs` | lots, stakes, bank; the theory of sums | done |
| 4 | `Companions`, `CompanionsProofs` | followers, groups, pets, charm, mounts | done |
| 5 | `Fight`, `FightProofs` | `fighting` pointers, and the walks of `violence_update()` and `char_update()` over a list their bodies shorten | done |
| 6 | `Limits`, `HoldingsProofs` | the count of a limited object against the world, the files, the auction, reboots and crashes | done |
| 7 | `Coins`, `HoldingsProofs` | purses, coins as objects, corpses, shops, thefts, changers | done |
| 8 | `Quest`, `Lists`, `ListProofs` | quests of players and groups, the records of the givers | done |
| 9 | `Clans`, `ClansProofs` | members, leaders, wars, the table and its file | done |
| 10 | `Scripts`, `ListProofs` | the interpreter of programs and the targets they remember | done |
| 11 | `HoldingsProofs` | the drift of the count and the worth of coins, by sums that a step changes in one or two places | done |
| 12 | `Containers` | the tree of containers and the weights that are kept incrementally (`handler.c:2750`, `handler.c:2793`) | planned |
| 13 | `Switch` | snoop, switch and the change of shape in `close_socket()` and `extract_char()` | planned |
| 14 | `Marriage`, `Notes`, `Houses` | the small tables that two players share | planned |

`SessionPresence` composes the first two by a refinement. `Limits` takes the auction in as one
lot, `Fight` the master pointers of `Companions`, `Quest` the groups as a
partition; to put whole modules together would multiply their states without a
state in common that the smaller one lacks.

Abstract specifications: `Presence` (what a player may rely on) is stated and
implemented. Still worth stating: a bag of money with transfers, for `Auction` and
`Coins`, and "a set of connections, each served once per pulse" for `GameLoop`.

## 3. How the modules correspond to the code

Every action is one run of a handler from the event that starts it to its
return, because nothing in the process runs beside it. `PROJECT.json` gives the
source lines of each definition.

### Session

| variable | code |
|---|---|
| `con[d]` | `d->connected`; `"FREE"` is a descriptor outside `descriptor_list` |
| `dchar[d]` | `d->character` |
| `newer` | the order of `descriptor_list`; the loops that stop at the first match, and the saving order of `for_reboot()`, depend on it |
| `char[c]` | the `CHAR_DATA` of a player: name, `desc`, `id`, level (0: not yet created), `timer`, `was_in_room` as `voided`, `reg_answer` as `ans`, `count_entries_errors` as `errs`, `atheist` as `ath` |
| `char_list` | the players among `char_list` |
| `file[n]` | the player file of `n`, what `fwrite_char()` wrote last |
| `nextId` | `last_pc_id` |

`ver` stands for all that play changes; it counts the changes so that "older" has
a meaning. `hold` is what `can_quit()` refuses for. The dialogue's states are
those of `merc.h`; each `case` of `nanny()` is an action or, for the steps of
creation, an entry of `NextCon`. `close_socket()` is `CloseSocket`, `do_quit()`
with its walk over the copies of the same identifier is `Quit`, `char_update()` is
`CharUpdate`, `for_reboot()` is `Reboot`. `AtheistDies` is `raw_kill()` of an
atheist.

Abstractions: what makes an answer right (passwords, codepages, the registration
letters) is a choice; bans, `PLR_DENY` and `wizlock` are one Boolean; snoop, switch
and the exemptions of immortals are left out; a save does not fail; `get_pc_id()`
never runs out before `MaxId`; nobody writes the file of a
player who is away (the expulsion from a clan does, which `Clans` has, and so do
immortals' commands): `CopiesFresh` and `RollBackOnlyByLogin` are about what play and logins write; where freed descriptors are read
(`ConfirmNameYes`) the outcome is a choice. The order of `char_list` matters only
where two bodies of one name are saved in one tick: any may be the last.

### Presence and SessionPresence

`Presence` is the promise without connections: a player is away, linked or
link-dead; entering gives back what was kept; being cut off loses nothing;
leaving keeps everything. Two exceptions are spelled out, `Relapse` (a failed
login saves the copy it loaded) and `End` (the process ends). After either the file may
hold anything up to what was played (`Overwritten`): a second copy may even be newer than
the one that overwrote the file before it. `SessionPresence`
maps bodies and files to it.

### GameLoop

`list` and `free` are `descriptor_list` and `descriptor_free` as sequences;
`Link` reads the link field, which both lists share. `phase` and `cur` are the
position in `game_loop_unix()`: accept, kick, input, `update_handler()`, output.
One action is one pass of a loop body. What a body may close beside its own
connection is any set: `write_to_buffer()` closes whoever's buffer overflows.
`SLIST_FOREACH_SAFE` is `GoOn`, which takes the link as it was before the body.
`strayed` is a history variable: a loop of this pulse stood at a descriptor that
is nobody's connection. A second `SLIST_REMOVE` of one descriptor ends the
process (`ClosedAgain`). The result of `select()` is chosen when the loop comes to
a socket. Proxies and compression are part of the reasons to close. What is left of a list when
several of its elements leave it is `Kept` of `Lists`, here and in `Quest`.

### Auction

`lot` is `auctions[]`, `bank` and `gold` are the account and the purse, `auc` the
objects with `ITEM_AUCTION`, `owner` the carrier, `where` the presence of a player
(the part of `Session` that auctions see). `Put`, `Stake`, `Struck`, `Identify` are the
branches of `do_auction()`, `AuctionUpdate` is `auction_update()`; `LinkLost`, `Die`,
`Destroy` and `Purge` are the callers of `check_auctions()`. The products with 1.1 and
1.05 are computed as the code does, as doubles that are cut off: `Refund` and `Left`
give the sums, `Left` with the coin that the inexact 1.1 may cost. `do_purge()`
extracts the player before it closes his connection, and `extract_char()` takes the character off the
descriptor, so `check_auctions()` is not called for him: only lots he still carries are struck, with their
objects. As the bidder of other lots, and as the seller of a lot that has left his bag, he stays a pointer to a
freed structure (`Ghost`). Who gets what is written to it is a choice, and so is whether a later
player in the same structure counts as the seller: `StrikeLotsOf`, `Struck` and, for a connection that has not
entered yet, `LoginLost`. Levels, limits, visibility and the exchange of coins are left out; so are
files and reboots. `main()` sets only the first three of the five lots to zero,
which changes nothing, the array being static.

### Companions

`w` holds the pointers `master`, `leader`, `pet` and `mount`, and the sets of the living,
the riding, the charmed and of those charmed by a spell that will end. The
helpers carry the names of the functions: `StopFollower`, `DieFollower`,
`ExtractMob`, `NukePets`, `Mount`; they take sets where the code goes through the characters
one by one and their order does not matter. An action applies the helpers its command calls, in
their order, to `w`. Following and charming are open to mobs too, whose scripts give commands and spells. `charm()`
asks of its victim, not of the one who charms, whether it is a horse, and `do_follow()` asks neither: so a rider may
come to obey the horse that carries him. `get_master()` does not come back from such a circle; the model
has no step for what calls it then (`Answers`), as the server has none. Rooms, sight, skills, prices and luck are choices; so is which
servants are far from their master when `die_follower()` sends them away. The
code takes all structures from one free list; the model keeps those of players and
of mobs apart, and within each of the two sets a freed one may be used again at
once. `free_char()` is `Free`: the pointers *of* the freed character are cleared, those *to* it are what the
properties are about.

`Order` is `spell_order()`: its victim obeys another one for the length of one command and is
then given back its master (`GivenBack`). If the command has killed that master, the victim goes
on following a structure that is free, and may soon be a stranger; if it was led by him, it is left
leading itself. Nothing mends the pointer until the victim stops following. Both are what the
properties except, and `w.lost` says who it has happened to. Of the commands that may be ordered those are
modelled that change these pointers and are not refused to somebody charmed: mount, dismount and fights.

### Fight

`w` is the characters: `char_list` and `char_free` as sequences (they share the link
field), `mob` for `IS_NPC`, `valid` for `IS_VALID`, the pointers `fighting` and, of the
charmed, `master`. `walk` is the stack frame of the loop that runs: its character, the
next one it has saved, and the stage of the body. A walk goes on from the saved
character whichever list that is in by then, as `LIST_FOREACH_SAFE` does; a new
character is put at the head of the list, in the structure freed last. `Violence` and
`Update` begin the two walks, the stages are the parts of their bodies that extract,
invalidate or set `fighting`; between walks commands do (`Attack`, `Flee`, `Rescue`,
`Charm`, `Quit`, `Purge`). `due`, `dead`, `extra` and `cut` are history. Damage, luck, rooms and
positions are choices.

### Limits

The objects of one kind, counted place by place: `room`, `mobs`, `stock` (the ware of shops),
`have` (worn, loose or boxed, for each player), `file`, and one `lot` at auction. `count` and
`max` are the two entries of `limits[]`, `saved` what `limits.txt` has. `HasLimit` is
`is_have_limit()`, `Full` is `check_reset_for_limit()`, `Less` what `extract_obj()` leaves.
`Reboot` and `Crash` start the count from the file, which only an editor writes.

### Coins

`purse` is `silver`, `gold` and `bronze`; `piles` is a bag of the objects of money, on the
ground or in corpses. `Money` is `create_money()`, with the coins it makes of nothing;
`Gathered` are the heaps that `do_drop()` swallows and `Gain` what it adds for one; `Deduct` is
`deduct_cost()`. `Split` is `do_split()` with the members it counts, `M`, whom it asks for nothing but to be players
(or a mob an immortal inhabits) of the group: the one who divides, who may be any mob, is or is not among them. All
commands are open to mobs but `Dig`, a skill they do not have. Weights only refuse. `Total` and `Bronze`, what there is of silver and gold and of bronze, are
sums over purses and piles by the operator of `Totals`, which `Limits` uses, too.

### Quest

`q` is what a player keeps (`questgiver`, `countdown`, `nextquest`, `questmob`, `questobj`,
the flags), `records` the groups that the givers keep, `band` the partition that
`is_same_group()` makes. `Tick` is `quest_update()` for players and records at once. A giver
who is taken out of the world becomes `NoQuester`: memory nobody is in.

### Clans

`valid`, `war`, `ally`, `master`, `deputy` and `count` are `clan_table`, `saved` is `clans.txt`; `clan` and
`ready` are `ch->clan` and `ch->clan_ready` for players in the game, and for others `clan` is the line of
their `file`. `Expel` covers both branches of `do_clan_expel()`, for one who stands by
and for one whose file is loaded, changed and written. `copy` is the `d->character` of a connection that is logging
in: `ReadFile` is the name prompt, `SaveBack` the wrong letter of the registration, which writes the copy, and
`LoginBy` an entrance with errors counted, which writes it too before it reads the file again; any other
entrance only reads (`Login`), so the copy does not matter to it. Whether errors are counted is a choice. `rare` bounds what immortals do, an
atheist who is kept, logins that may write back and starts of the server, which are `Reboot`; this saves
the copies of those who are logging in as well.

### Scripts

`stack` holds the activations of `program_flow()`: whose program, who triggered it, and the
local `level`, `state[]` and `cond[]`. A program has no jumps, so its next line is any line:
`If`, `OrAnd`, `Else`, `Endif`, `Output`, `Break`, `Ends`, the errors that count their call
back (`Refused`) and those that do not (`Malformed`), and `Command`, which may start further
programs, extract anybody, or remember somebody. `call_level` and `Show_output` are the
static and the global variable; `target` is `mprog_target`, `oprog_target` and `rprog_target`. A
condition has any outcome; what it does to `target` is `Evaluates`. The second actor, the
random one and the objects of a program are left out, so is the light that triggers lend to
mobiles (`mob_holylight`). Nothing in the interpreter asks whether its mobile is still in
the world, so its program goes on in the model, too.

## 4. Runs

| run | bounds | shows |
|---|---|---|
| `session_closed` | 3 connections, 1 registered player, 4 character structures, 2 changes by play, timers 1/2/3, an open deal | links agree; one body and one entrance per name; bodies and copies are as new as the file; a file gets older only through a stale login copy; `Presence` is implemented |
| `session_open` | 2 connections, 2 structures, a free name, fair ticks | one creation per name; a link-dead body is taken over or leaves |
| `session_refusal` | 3 connections, one free name | the finding of section 9 |
| `loop` | 3 descriptors, limits 1 and 2 | lists sound; one way to stray; everybody served; silent connections leave |
| `auction` | 3 players, 2 objects of which one is a trap and a weapon, 1 place, stakes 2 and 3, accounts of 0, 3 and 4, fair ticks | no debts, seller and bidder present unless purged, stakes answered, no money made, every lot ends |
| `companions` | 2 players and 2 mobs, 2 charmed followers allowed; an order by a spell while 3 are there | no dangling master, leader, pet but for the master a spell gave back; pets and the charmed have their master; chains end and groups have one head, but where a mob follows its horse |
| `fight` | 3 structures, players or mobs by turns | lists sound; fighters in the world; turns lost or doubled only by the cut that is named; the dead return |
| `limits` | 2 players, 3 objects, limit up to 2, count up to 3 | one object for a player; the drifts of the count are those named |
| `coins` | 2 players, 2 mobs of which one changes, 2 silver to a gold one, up to 7 silver's worth, 2 piles | piles sound; no coin made or lost but in the ways named |
| `quest` | 3 players, 1 giver, 2 ticks for a quest, 1 between two, 2 records, fair ticks | fields agree; the giver remembers a group; a group ends together; every quest ends |
| `clans` | 2 players who are atheists, 2 clans and the independents, 1 connection with a copy, 1 rare event | no clan turns on itself; counts follow, nobody is poached, masters stay, but in the ways named |
| `scripts` | 2 players, 1 mobile, 1 object, blocks 3 deep, calls 2 deep | blocks nest; calls are counted but for malformed programs; stale targets only in the ways named |

Why the bounds are enough. *One name* suffices for `Session`, because handlers
compare names for equality only and never look at two names at once, except for the
tick and the reboot, which treat each name by itself. *Three connections* are the
fewest with which two compete while a third is closed by their handlers; the
proofs remove this bound for the properties that have one. *Four structures* let
each connection hold a copy while a body is link-dead. *Two units of play*
give a copy room to lie between the file and the body: a login that fails after a second
save puts back what is neither. A fight, the other thing that holds a body, is in
`session_open`. The timers keep the order of the real ones
(12, 15, 30 ticks): limbo first, then a link-dead body, then an idle one.
In `session_open` two connections are enough for a creation to meet its rival, and for a
body to be taken over; what a third rival adds is `session_refusal`.

*Three descriptors* allow a predecessor, a current and a next one; longer lists
repeat these positions, and so do the *three structures* of `fight`: the character whose turn it
is, the saved next one, and one behind them who is passed over. In `auction` two bidders
outbid each other on the lot of a third, with sums small enough for the accounts to run
dry and odd enough for every rounding; the object on the one place changes. Lots on several
places at a time are covered by the theorems about `LotsSound` and `BidderPresent`. In
`companions` two mobs are a horse and a pet, or a chain of two servants; longer chains are
made of the same links. An order (`MaxAlive`) needs the one who gives it, the one who
obeys and his master; where the fourth is away the two mobs still take turns.

In `limits` the limit is one or two, so that it can be reached, passed and lowered; two
players hand on what a third would. In `coins` gold is worth two silver coins instead of a
hundred: change and rounding differ from none to all of a gold coin all the same. In `quest` three
players are a group and one outside, or two who quarrel over a third; two records tell
the newest from an older one, and two ticks let a quest end with either. In `clans` three
clans have pairwise all relations, two players each part in a command. In `scripts` three
levels are the outermost, one around and one within; two calls are the caller and
the called.

`SYMMETRY` is used in runs without liveness only. The `VIEW` of `companions` leaves out
whether a structure that nobody has or follows was once a horse. The `VIEW` of `clans` leaves out what
`clans.txt`, and the file of somebody who plays, have once the last rare event has happened: nothing reads them
then. Before it, they are told apart only where no war or alliance is declared, and after it wars and alliances are
told apart only when the event was a start of the server or a clan that is deleted. For membership nothing is lost by that, because no action but
another declaration reads them; of `NoCivilWar` the run leaves out declarations after the other rare events,
which touch no clan (the theorem has them all).
Deadlock is checked in every run: no cfg turns it off.

## 5. Fairness

* `Session`: `WF(CharUpdate)`, because `update_handler()` runs in every pulse and the
  loop never waits for a client; and `WF(Settle(c))` for each body, because a fight
  ends by death, flight or limbo and a deal by the timers of auction and quest.
  Nothing is assumed of players or connections.
* `GameLoop`: `WF(LoopNext)`. `select()` has a zero timeout in the poll, and the sockets
  are non-blocking.
* `Auction`: `WF(AuctionUpdate)`, which is called from the tick. Bidders may stop at any
  time or go on as long as they have money.
* `Quest`: `WF(Tick)`, `quest_update()` is called from the same tick. Neither givers nor players
  have to do anything.

The other modules have no liveness property: what happens to followers, purses, clans and
programs is up to players and authors, and that `violence_update()` brings the dead back is
stated as an invariant of its walk (`DeadReturn`).

## 6. Proofs

All theorems hold for every value of the constants that satisfies the named
assumptions of the modules (`None` is none of the values, bounds are naturals,
`VoidTimer <= QuitTimer <= IdleTimer`, typed initial files and purses).

| theorem | states | rests on |
|---|---|---|
| `SessionProofs!TypeCorrect` | `Spec => []TypeOK` | `LinkInv` |
| `SessionProofs!LinksAlwaysConsistent` | `Spec => []LinkConsistent` | `LinkInv` |
| `SessionProofs!CreatedOnce` | `Spec => []OneCreation` | `LinkInv`, `OneCreation` |
| `SessionProofs!PlaysOnceWhenRegistered` | `Spec => []OneBodyPerName` | `LinkInv`, `RegInv` |
| `SessionProofs!EntersAlone` | `Spec => []OneEntrance` | `LinkInv`, `RegInv` |
| `SessionProofs!CopiesStayFresh` | `Spec => []CopiesFresh` | `LinkInv`, `RegInv`, `FreshInv` |
| `SessionProofs!OnlyLoginsRollBack` | `Spec => RollBackOnlyByLogin` | `LinkInv`, `RegInv`, `FreshInv` |
| `SessionProofs!ClosedServerImplementsPresence` | `Registered /\ OwnIds /\ Spec => ImplementsPresence` | `LinkInv`, `RegInv`, `FreshInv`, `FileIds` |
| `AuctionProofs!LotsStaySound` | `Spec => []LotsSound` | `LotInv` |
| `AuctionProofs!BiddersStay` | `Spec => []BidderPresent` | `LotInv` |
| `AuctionProofs!NobodyOwes` | `Spec => []TypeOK` | `MoneyInv` |
| `AuctionProofs!NoMoneyMade` | `Spec => MoneyNotMade` | `MoneyInv` |
| `AuctionProofs!StakesComeBack` | `Spec => StakeAnswered` | `MoneyInv` |
| `CompanionsProofs!NoDanglingLink` | `Spec => []FollowLinksAlive` | `CompanionsInv` |
| `CompanionsProofs!PetsStayLoyal` | `Spec => []PetsLoyal` | `CompanionsInv` |
| `CompanionsProofs!ChainsAlwaysEnd` | `Spec => []ChainsEnd` | `CompanionsInv` |
| `FightProofs!ListsAlwaysSound` | `Spec => []ListsSound` | `FightInv` |
| `FightProofs!FightsOnlyTheLiving` | `Spec => []FightingAlive` | `FightInv` |
| `FightProofs!EverybodyHasHisTurn` | `Spec => []TurnsLostByCutOnly` | `FightInv` |
| `FightProofs!AllTheDeadReturn` | `Spec => []DeadReturn` | `FightInv` |
| `HoldingsProofs!NeverTwo` | `Spec => []OnePerPlayer` | `LimitsInv` |
| `HoldingsProofs!DriftsFewWays` | `Spec => DriftsOnlyBy` | `LimitsInv` |
| `HoldingsProofs!CoinsAreSound` | `CoinsSpec => []CoinsInv` | `CoinsInv` |
| `HoldingsProofs!PilesAreSound` | `CoinsSpec => []PilesSound` | `CoinsInv` |
| `HoldingsProofs!CoinsAreKept` | `CoinsSpec => CoinsKept` | `CoinsInv` |
| `ListProofs!QuestAlwaysSound` | `Spec => []QuestSound` | `QuestInv`, `RecordsInv` |
| `ListProofs!RecordsStay` | `Spec => RecordKept` | `QuestInv`, `RecordsInv` |
| `ListProofs!GroupsEndTogether` | `Spec => EndsTogether` | `QuestInv` |
| `ListProofs!DescriptorListsSound` | `LoopSpec => []ListsSound` | `LoopInv` |
| `ListProofs!EverybodyServed` | `LoopSpec => []AllServed` | `LoopInv` |
| `ListProofs!LoopsStrayByNextOnly` | `LoopSpec => StraysByNextOnly` | `LoopInv` |
| `ClansProofs!NoCivilWarEver` | `Spec => []NoCivilWar` | `Peaceful` |
| `ClansProofs!CountFollows` | `Spec => CountKept` | `ClanInv` |
| `ClansProofs!NobodyPoached` | `Spec => NeverPoached` | `ClanInv` |
| `ClansProofs!MastersStay` | `Spec => MasterStays` | `ClanInv` |
| `ClansProofs!TypesHold` | `Spec => []TypeOK` | `ClanInv` |
| `ListProofs!BlocksAlwaysNest` | `ScriptSpec => []BlocksNest` | `ScriptsInv` |
| `ListProofs!AlwaysLeavesClean` | `ScriptSpec => []LeavesClean` | `ScriptsInv` |
| `ListProofs!StaleFewWays` | `ScriptSpec => StaleOnlyBy` | `ScriptsInv` |

`TypeCorrect`, `TypesHold` and `CoinsAreSound` state types and more than a run lists by itself. `Quest`
and `GameLoop` share a module of proofs because they share the lemmas on lists, and `Scripts`, with its
stack, is there, too; `Limits` and `Coins` share one because both are about what players hold. What is
needed of sums is in `TotalProofs`, which knows nothing of the game.

*`LinkInv`* is `TypeOK /\ LinkConsistent`. Neither is inductive alone: that a handler
reads a character through `d->character` is well typed only because the link
is sound. The handlers that close several connections and then hand over a body
(`BreakConnectYes`) are sound only as a whole, so the lemmas speak of `Links` of
any four values, and each operation (`CloseLinks`, `RemoveLinks`, `TakeLinks`, ...) is
one lemma; the lemmas `LoginStep`, `ConnectionStep`, `BodyStep`, `TickStep` and
`RebootStep` then go through the actions.

*`RegInv`* strengthens the uniqueness of bodies. Two connections that both passed
`check_playing()` must not meet, hence: at most one connection per name waits at
the message of the day, and none while a body of that name exists. This needs
that nobody skips the registration question (`Good` for every file and every
copy), that nobody is in creation, and that the file of a body exists, without
which its name would be taken for a new one. Where players are not registered the
invariant is false (section 9).

*`FreshInv`* says how old the three forms of a player are. A copy that a connection has loaded
is never ahead of the body of its name, and while there is no body it is what the file
holds; no body is older than its file; and every character has the identifier of its file.
The last part is why the others last: when a body leaves, `do_quit()` looks for copies by
their identifier, so every copy that the file leaves behind goes too (`Toasting`).
`StepWritten` then goes through all that may write a file: a step writes what a body
is, what the file held, or the copy of a connection that was logging in and is closed.

*`OneCreation`* is inductive beside `LinkInv`: a connection begins a creation only where no
other one in the dialogue has the name, and the characters outside the world keep their
names (`KeepsNames`). Those are all rivals there can be, because a character in creation belongs
to its connection alone.

*The refinement.* `Presence` sees of a player whether there is a body of the name, whether it has
a connection, the play recorded in it and in the file. With `RegInv` there is one body or
none (`Lone`, `Away`), so each action comes to one of five moves per name: `Entrance` (the message
of the day), `InPlace` (nobody comes or goes), `Leaving`, a relapse (`WrongAnswer` saves a copy
that `FreshInv` bounds by the body) or nothing; `LoginMoves` to `TickMoves` say which. A reboot is
`End` (`EndMoves`). The theorem has two hypotheses. `Registered` is what makes a server a closed
one. `OwnIds` says that no two files of the player directory have one identifier, which is what
`get_pc_id()` is for; `FileIds` carries it along. Without it `do_quit()`, which takes along
every character with the identifier of the one who quits (`OnlyThey`), would throw another player
out of the world unsaved. The assumption `KeptAssumption` only says that the value for a missing
file is not a number.

*`LotInv`* is the types of lots and owners with `LotsSound` and `BidderPresent`. A lot that
is neither trap nor arms stays with its seller only because its mark keeps `can_drop_obj()` from letting it
go, and the mark is right only because no object is in two lots; and what stays with him goes with him when he is
purged, so such a lot never has a freed seller. `PurgedLots` says what a purge leaves of each lot. Sums of money
do not occur in it.

*`MoneyInv`* adds to it that accounts and purses hold natural numbers. That nobody comes to owe is not
plain: the test of `do_auction`, the stake and the refund round on their own, and `Rounding` says
that what is asked for covers what is taken, and what comes back covers what the seller gets.
`MoneyNotMade` is about a sum over all players and all lots. `TotalProofs` has
what is needed of sums: that a finite set has one (`SumExists`, `SumUnique`), how it splits, grows
and changes at one place (`TotalSplit`, `TotalAdds`, `TotalChange`), what a factor and another
name for each summand do to it (`TotalScaled`, `TotalRenamed`), and that a sum of refunds is
the sum of what each bidder gets (`TotalShared`), which is where an update that closes several lots of one
bidder could pay twice. Induction over data is out of the prover's reach as a rule, but not here: of
all subsets of a finite set for which a statement about sums fails there is a smallest one
(`Smallest`), and taking one element out of that refutes it. That players are finitely many is an assumption of
`Auction`, of `Limits` and of `Coins`.

*`CompanionsInv`* is `Sound` with the flags typed. Its parts are `Closed` (no link leads out of the
world, pets are loyal), `Kinds` (who may be charmed, ridden or led by whom), `Ends` and
`Counted`. `Ends` says of every set of the living without a mob that rides backwards (`Backwards`: one that follows a horse, or
uncharmed what it rides) that somebody's master, and somebody's leader, is outside of it; for
finite numbers this is that all other chains end, and unlike a bound on their length it is kept by
whatever takes links away. So every departure is one lemma: `Loosens` (fewer links, nobody
new) from a sound world to a closed one gives a sound one. New links are made in few places: by birth, by
serving, by riding, by joining a group (`BornSound`, `ServesSound`, `RidesSound`, `JoinsSound`), and
each of them has a reason why the new link closes no circle. `spell_control()` puts a saved master back
after the command has run; the invariant allows for this by `lost`, and says by `Told` and
`GivenBackSound` that the rest is as sound as it was.

*`FightInv`* is that the world is whole (`Whole`: the types, `ListsSound`, `FightingAlive`), with what the walk
holds. Almost everything a turn may do only thins the world (`Thins`): it stays whole, those who are left
keep their order, nobody new is valid, and who leaves no longer is. This is one lemma for each
operation, from `StopFightingThins` up to `ScriptsThin`; what brings somebody in, `NewChar` and
`Validated`, is treated by itself (`Gains`, `ValidatedIs`). The walk then has two parts. `Turns`: while no saved
character has been cut, those who still have their turn to come are exactly those from the saved
character on (`Rest`), and the dead who waited when `violence_update()` began are among
them. A world that thins keeps this unless the saved character is who leaves, and then the
walk is `cut`; a new character comes in front of the list, where a walk never comes back (`InFront`). `Hands`: the
pointers that a turn still holds may be old, but are of people in the world if they are valid, which is
all that the code asks. Two things are needed of data. `nuke_pets()` removes servants one after the
other, a fold over a set: of all subsets for which the result would not be a thinner world there
is a smallest one, which its last removal refutes (`SendAwayThins`). And a list without a character
(`RemoveFirstIs`) keeps the order of the others.

*`LimitsInv`* is the types with "at most one" for the world and for the files, and with the
object for sale: its seller carries it, and who leads the bids is in the world and has
none. The lot is handed over without asking again, so a bidder who had one, or who was away
with one in his file, would end with two. What the table counts does not occur in it.

`DriftsOnlyBy` needs no more than that. What the table ought to count, `Known`, is what lies in rooms
and on mobiles and a sum over the players, of what each has in the world or will bring back into it. A step
changes the summand of one player, or of two where something changes hands (`TwoChange`, `OneHas`), or of nobody
(`NobodyHas`), and each action comes to one of three things: it keeps `Known - count` from
rising (`Unmade`), it keeps `count - Known` from rising where it leaves the count ahead (`Unlost`), and it keeps
the count within the limit (`InLimits`). The lemmas `MakesDrift` to `ComingsDrift` say of every action which of
the three it does; the property names the actions that fail one of them, and no others. The
types matter where `extract_obj()` stops the count at zero: the count is then not ahead of what is known, because
nobody has fewer objects than none.

*`CoinsInv`* is the types with `GoodPile`: every pile is as `create_money()` makes it. `PilesSound` says less, and
is not enough for `CoinsKept`: how much silver goes with bronze that is dropped on other bronze depends on what
`value[0]` of a bronze pile is, one for a single coin and none for a heap. The worth of the world is two sums,
`InPurses` over the purses and `InHeap` over the piles, for silver and gold and for bronze. What the model does
to a bag has one lemma each: a pile more, a pile less, several less, or fallen out of a corpse (`HeapAdd`,
`HeapTake`, `HeapWithout`, `HeapFallen`, which says that no two piles of a corpse become one on the ground).
So have one purse and two (`PurseSet`, `PurseSetTwo`) and the shares of a group (`SplitKeeps`, with `SharesFit`: what the takers are paid is never more than what is divided and the share that a mob keeps uncounted; `Minted`
and `EvenMints` bound that share by half of the sum). `StepIs` puts the two sums together. What remains is arithmetic: that `deduct_cost()`
takes exactly what it is asked for, whatever the rate, and never more gold than there is (`DeductIs`, `CeilIs`), that
the trader gets the same (`PriceIs`), what `create_money()` makes of any sum (`MoneyIs`), and what a drop
gathers (`GainIs`, `BronzeGain`).

*What these proofs corrected.* `CoinsKept` bounded the loss of a drop on bronze by two coins of silver, which is true of two
piles only, the bound of the run: it is one for each single bronze coin that lies there (`Singles`). In `Limits` the guard
of `Rearrange` was read as an implication as a whole, so that players out of the world put objects in and out
of their boxes.

*`QuestInv`* is that the fields of each player are typed and agree with each other (`Agrees`), and
that groups are of players. The records of the givers are not needed for `EndsTogether`: that a
group ends together is about one step, from any state of this kind. *`RecordsInv`* types the records,
and `RecordKept` is then about what each action does to the newest record that names a player
(`Newest`, `Lasts`): a tick takes out only records whose time is over, so the newest one stays the
newest (`TickedRecords`); a new group comes in front (`AddedRecord`), which hides the record of
nobody who still has time; and a record that is closed names those whom it named
(`ClosedRecord`). In a tick several records leave a list at once. How many of the positions
that stay are not behind a given one, its `Rank`, numbers them without a gap and in order
(`Ranks`): they are as many as the numbers, so no induction over the list is needed, and
`KeptIs` and `Filtered` say what is left of any list.

*`LoopInv`* is `ListsSound` with two parts. `Patient` keeps the counts within their type: who is
listed and not playing has been silent for at most `DialogLimit`, because the kick loop counts
each of them and closes who is over it before the next pulse. `OnTheWay` is the loop
invariant of the walks: unless strayed, `cur` is in the list or past its end, and those the input loop
has not come to are among those from `cur` on (`From`). Whatever is closed, `close_socket()` moves
descriptors from one list to the other and keeps the order of who stays (`CloseShrinks`), and the link taken
before the body leads to the next one (`AfterIs`), so one lemma (`GoOnWay`, `PassKeeps`) serves all passes
of all three bodies. The last theorem needs the same: a link out of a listed descriptor stays in the
list as it was before the body.

*`Peaceful`*: no clan is at war with an ally it has named, or with itself. `NoCivilWar` is
about wars that follow from the wars of allies, and does not by itself keep the next
declaration from breaking it; that each declaration asks for the other flag does.

*`ClanInv`* is the types with `Settled`: who is in a clan has agreed to nothing. An `accept` does
not ask what clan the player is in, so nobody is poached only because his agreement has
gone by the time he is in. The types say that the clan of who is away is that of his file, which is why an entrance that
reads the file moves nobody. `OldFile` is about the two that write a copy: they move one player at most, and in or out
of a clan only when the copy is not what he has now (`Overwritten`). That is the exception of all three properties; of the count
(`Drifts`) there is one more, the atheist who is kept. `StepCounts` shows that there is no third.

*`ScriptsInv`* is `BlocksNest /\ LeavesClean`. The proof restates the first as "the stack is a
sequence of good frames" (`GoodStack`); then each line has one lemma about the frame on top,
and the lemmas `LineKeeps`, `EndsKeep` and `StartKeeps` carry it to the stack. That the call
counter never falls below zero needs the second part.

## 7. What is only model-checked

* Liveness (`LinkDeadLeaves`, `SilentLeaves`, `LotsEnd`, `QuestEnds`): out of the prover's reach, because
  fairness is about `ENABLED`. Every other property of a passing run is a theorem.

## 8. What is not modelled

Formulas (damage, spells, skills, prices) and texts: they are arithmetic on one or two
characters, and their states are not what goes wrong. Formats of player and area
files: one value per file. Compression, telnet and the inactive name lookup:
protocols of libraries. Editors, immortals' field setters and information
commands: they print or set fields. The following have state worth modelling and are
left for steps 12 to 14 of the plan; what reading them has shown is kept here.

* *Containers and weights.* `carry_weight` is kept incrementally (`handler.c:2750`, `handler.c:2793`), with the
  multiplier of the outermost container only and each product cut off by itself: bags
  inside chests let it drift from `get_obj_weight()`.
* *Snoop, switch, change of shape.* `close_socket()` (`comm.c:1263`) sets the room of a body that has
  changed its shape without listing it there; `spell_shapechange()` (`magic2.c:2334`) does not
  ask whether `do_switch()` succeeded; a purge of a switched god's body leaves `d->original`.
  The check against loops of snooping (`act_wiz.c:2846`) is sound.
* *Marriage.* `do_marry()` takes the consent off the first spouse twice; an unconditional
  divorce leaves the other one married; an agreed one asks only one side.
* *Houses.* `do_invite()` and `do_refuse()` keep two lists, of guests and of hosts; a refusal removes one
  of several equal entries. The rest of `house.c` are requests to immortals.
* *Notes.* `hide_note()` compares the time of a note with that of the last one read, both in seconds.
* *Arena.* Lists of challengers and scores, loaded, saved and deleted.

## 9. Where the code disagrees with what it says

`session_refusal`: the check announced at `comm.c:7644` for "names of people playing" refuses a
name by closing the connection, goes on walking the list, and closes the refused connection
again for the next rival; the second `close_socket()` runs `SLIST_REMOVE` off the end of
the list (`comm.c:7655`).

The models keep what the code does also where a reader would expect something else. The
properties name these places as their exceptions, or leave them out where said:

* *Login.* A player without a registration answer can be in the world twice
  (`comm.c:7531`), so `OneBodyPerName` is about registered players. The check of a new name skips the
  connections that play (`comm.c:7651`), so `OneCreation` is about creation only. A refused `do_quit()` of an
  atheist who dies with an open deal leaves a body without a file (`fight.c:5005`).
* *Auctions.* A trap that is set (`act_obj.c:5237`) and a weapon that is disarmed (`fight.c:5823`) leave the seller
  though they are lots; when he is purged then, the lot keeps a pointer to his freed structure
  (`act_wiz.c:3364`). A reboot closes connection by connection and refunds a bidder
  who is saved already (`act_wiz.c:2633`; `Auction` has no files).
* *Companions.* `stop_follower()` clears the rider's `mount` and not the horse's (`act_comm.c:2517`).
  `charm()` (`magic.c:1806`) and `do_follow()` let a script make a rider obey its horse, and `get_master()` does not come
  back from the circle.
* *Fight.* `do_rescue()` of somebody who fights the rescuer sets the rescuer to fight himself (`fight.c:6972`). The
  walk loses turns when its body removes the saved next character (`fight.c:727`, `update.c:1415`).
* *Limits.* A clone counts twice; scripts, editors and shops do not count; a purge saves and
  then counts down; a quit gives back what a login copy has; `limits.txt` is written by an
  editor only.
* *Coins.* `do_split()` (`act_comm.c:2980`) counts the players of the group and takes for granted that the divider is one
  of them. A mob, which may be ordered to divide, or does so by itself when it has `ACT_WIMPY`, the bit of
  `PLR_AUTOSPLIT`, is not counted and keeps a share, while all members are paid theirs: the shares come to more than the
  sum (the last two disjuncts of `CoinsMade`). `area/help.hlp:1675` only says that money is distributed. `create_money()` of nothing makes one coin of each kind (`handler.c:3488`), and a corpse asks for
  it. A heap of bronze is read in `value[0]` when more is dropped on it, and is lost; the single bronze coin
  carries a silver one; a changer gives `change` gold for gold and is emptied after.
* *Quests.* "quest quit" of what is done closes the record of the group; a single player's hand-in pays and ends
  the quests of those who stand by; `questgiver` outlives the giver (`save.c:281`); a reboot loses the
  records and keeps the quests.
* *Clans.* A copy of the file that was read at the name prompt undoes an expulsion, or any other change of clan, when it
  is written back (`comm.c:7569`, `comm.c:8290`), and the count does not follow; nor does it for an atheist who is
  kept (`fight.c:5005`). Independents are counted by neither `accept` nor `expel`; two mutual allies can get at
  war through a third, though `do_clan_war()` refuses a war "through other clans" at the moment it is
  declared; flags of a deleted clan act until a restart; an immortal may name a master who is
  in another clan; the dismissal of a deputy is not saved; the expulsion of a master who is
  away returns early with the clock set back.
* *Scripts.* Seven errors of an author cost a level of calls each, for ever (`mob_prog.c:3049` and after); "output" acts
  also where its block is not carried out, and stays after "break" and "return"; the test of
  `extract_char_for_quit()` is reversed (`act_comm.c:151`); the targets of objects and rooms are never cleared.
