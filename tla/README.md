# A verification project for the hero server

The repository is the server of an online role-playing game, written in Go: about 39,000
lines, no tests. Players' clients hold one TCP connection each; the server keeps
characters, items, guilds and parties in memory and writes them to PostgreSQL, usually in
the background (`go X.Update()`). This directory holds TLA+ models of the parts where the
program's own logic is hard to get right, the TLC runs that check them on small
instances, and proofs checked by TLAPS for every size of the instance.

    tlc -workers 2 -config MCTradeGoods.cfg MCTrade   # one run; see the table below
    tlapm TradeProofs.tla                             # one module of proofs

## How the program runs

- `main.go` accepts connections; `go ws.Read()` reads each one. Every chunk that arrives is
  handled in a goroutine of its own, by the tables of `factory/init.go`, under a
  `recover()`: a panic ends that handler in the middle. There is no lock per client, so
  two packets of one player, and packets of two players, run at the same time.
- Timers are `time.AfterFunc` closures over ids, slots or objects; cron jobs in `main.go`
  reset daily counters and start the great war.
- A write to a connection (`Socket.Write`, database/socket.go) waits for the one token of
  the socket, seven seconds at most, and then closes the connection, inside whatever handler
  wrote. With the token in hand it is a `Conn.Write` without any limit.
- The character of a user is an object that a map caches. Logging out drops it from the
  map while handlers may still use it; the next login loads another object.
- Locks are few and local: `tradeMutex`, `drMutex` (drops), `gMutex` (guilds), `Looting`,
  `InvMutex`, `AddingGold`. They are left out of the models where a handler holds them
  over nothing but its own assignments, since such a handler is one action anyhow.

The hard part is thus nearly always the same: a handler tests something, waits for a
connection, the database or a lock, and goes on with what it tested.

## Inventory of the system

| component | state | operations | what makes it correct | module |
|---|---|---|---|---|
| trades | `Trades`, `TradeID`, the offers and acceptances of a `Trade`, two bags, two purses | request, answer, edit, accept, cancel, complete; logout, respawn and item removal in between | both parties are in it; nothing moves that both did not accept; no item is doubled or lost; gold is kept | Trade |
| sessions and ids | `Socket`, `User`, character objects, `CharacterRegister`, the caches | login, server and character selection, start, menus, quit, closing from either side, failing writes | an id leads to the one object that carries it and comes back; who is out is out | Session |
| drops | `DropRegister`, timers, loots under way | falling, looting, expiry, freeing | looted once; goes in time; no timer takes another drop | Drops |
| guilds | `GuildID`, `Guild.Members`, donations | found, invite, join, leave, expel, dissolve, roles, donate | the two records of membership agree | Guild |
| parties | `PartyID`, `Parties`, members, timers of invitations | invite, accept, refuse, leave, disband, expel | the three agree; invitations settle | Party |
| bag and bank | `InventorySlot`s in memory, rows | add, use up, remove, move, swap, split, combine, arrange, load | memory and rows agree; no item hides another | Inventory |
| mobs | `AI`: health, target, handler, timers | attack, death, payments, respawn, the handler's loop | one death per life; it comes back and is shown; the loop never stops | MobLife, Mobs |
| player shops, consignment | `Sale`s, rows of consigned items, bags, gold | open, close, buy; register, buy, take back, claim | an item is sold once, for gold that was there | Market |
| gold, bank gold | `Gold`, `BankGold` | loot, pay, deposit, withdraw | none appears or disappears | in Trade and Market |
| duels | `DuelID`, `DuelStarted`, countdowns | ask, answer, countdown, end | a duel has two parties, and begins after its countdown | Duels |
| life and death of characters | health, `Respawning` | blows, healing, death, respawn | a death is noticed | in Duels |
| wars | lobby, lists, points, timers of seven kinds of war | countdown, conquest, end | one war at a time, everybody gets out | no |
| dungeons | counters, open/closed, timers | entry of a party, kills, time limit | counters match mobs; visitors leave in time | no |
| attacks and skills | `Targets`, `TamingAI`, timers | aim, cast, release, forget | a blow lands on what it was aimed at | aims and blows in Mobs and Duels; how much they take: no |
| stats, experience | numbers of a character | formulas over tables | bounds, thresholds | steps of levels in Npc |
| item use | slots, `UsedConsumables`, buffs, books of skills | UseConsumable by type of item, switching on and off, the minute that ages what is on | what is held is saved; what works against each other is not on together; what is on runs out | Use |
| crafting, shops of NPCs | slots, gold | strengthen, produce, fuse, dismantle, extract, sockets, enchant, masters, buy and sell | an item has a code for each plus, whatever was done to it; nothing is taken for nothing | Workshop |
| NPCs | class, steps of level, daily gifts, tickets, lots | buttons that give, take or change | nobody gets a class or a gift it is not due | Npc |
| pets | `PetSlot`, `PetHandlerCB`, timers | call, put away, the beat of a second, walks, skills, food, death | one beat for a pet that is out; no walk or skill without an end | Pets |
| buffs, daily resets | rows, counters | expiry, cron | expire once | the minute in Use, the day in Npc |
| menus, maps, chat, packets, web, api, logging, configuration | little | formatting, I/O | | no |

PROJECT.json lists every part with its sources, and under "hazards" every place where
something can go wrong that a test would hardly reach, with the properties that watch it.

## Conventions

An action is a whole handler, up to the point where it waits for something that lets
others act; a handler that waits between two of its own state changes is a Begin... and a
Finish... action, and what it carries over is a variable (`edits`, `task`, `hand`,
`call`, `calls`). A write after the last state change is not modelled.

Several invariants of this code hold except after certain interleavings that nothing
prevents. The models contain these interleavings. A history variable names them: exactly
the steps that cause the trouble set it, it guards nothing, and the properties except
what it names. The exceptions are thus part of what is checked: without each of them, TLC
finds the interleaving, and with them it finds no other. They are the places to repair.
(In Inventory and Market a behaviour is not followed beyond such a step, to bound it.)

| variable | module | set when |
|---|---|---|
| `raced` | Trade | an acceptance was given while an edit of the trade was in flight |
| `stale` | Trade | an acceptance that was stalled in `conn.Write` completed a trade that was cancelled meanwhile |
| `broken` | Trade | a completion was broken off because a bag was full |
| `odd` | Session | an object was selected with an id already, while it was logged out or with no id left; started unselected or while logged out; or either after its reader had ended |
| `raced` | Drops | a drop was taken while another loot had it in hand, by a looter that had changed maps, or got an id that a timer or a loot still named |
| `ousted` | Guild | an officer expelled the leader of the guild |
| `odd` | Guild | a character joined while the guild was dissolved, lost another guild than the one meant, changed faction, or its leader was deleted |
| `astray` | Party | `PartyID` or a place in a list was set without looking at the other: by the timer of an unanswered invitation, by one from a member that does not lead, over a `PartyID` set meanwhile, by a refusal that comes when the character leads a party, by a disbanding that does not tell the invited, by a logout in a dungeon |
| `torn` | Inventory | a step wrote a slot that a waiting call had in hand, or the server went down in the middle of an arrangement |
| `strayed` | Inventory | a swap or a split took an item between bag and bank without a new `character_id` |
| `odd` | Mobs | a death was reported twice, the handler gave health to a mob that had none, a blow landed after the death it had not seen, or a respawn came while the death was still being paid, dropped or put out of sight |
| `silent` | Mobs | the broadcast of a blow that left no health failed, and DealDamage returned before CheckMobDead |
| `kept` | Mobs | a death returned before the list of dealers was cleared (a shared death; a temple whose guild is not found) |
| `crossed` | Market | two calls that run at the same time met at a slot or a row, or gold was changed between the reading and the writing of a purchase |
| `buried` | Market | items in whose slot a purchase put another (the slot that its packet names is not tested) |
| `hasty` | Market | a character spent gold that another of its own running calls had looked at |
| `stale` | Duels | the opponent of a character began another duel, or lost its duel by the end of another one, or was leaving when the duel began |
| `early` | Duels | a duel was started by the countdown of an earlier one, or by the timer of an expiring buff |
| `behind` | Goods | slots that a handler left different from their rows (a row deleted under a slot that keeps its thing, a change that is not saved) |
| `jam`, `ticks` | Goods | a refused use returned with `ItemMutex` locked; the timer of the character has come to wait for it |
| `met` | Use | the marks were no guard while an item of a kind was being switched on: ActivateTimeLimitedItem knows nothing of them, the timer of an eyeball deletes those of all eyeballs, and what is worn and runs out takes that of its kind along; or an item came back in use that had been taken off without a save |
| `forgot` | Use | a scroll took books out of their places (the search for a place stops at the first free one) and, at any level, the class |
| `hasty`, `starved`, `stalled` | Pets | it was called again before its last beat had ended; its food was missing, and PetHandler returned without a timer; a duel was over, and it was told to move without a walk |
| `revived` | Duels | a character was healed (a potion, a new level) while it waited to respawn |

Other history variables only help to state a property: `there`, `reported` and `strikers`
(Mobs) are the attackers of this life, `fees` (Market) the commissions paid, `made` and
`current` (Duels) number the duels.

## The modules

**Trade** (player/trade.go, database/trade.go). `tradeID` and `trades` are
`Character.TradeID` and the map `Trades`; `party`, `offer` and `accepted` are the fields
of a trade; `inv`, `row` and `gold` the bags, the rows of the items and the purses. Edits
clear both acceptances first and change the offer after a write; acceptances set their
flag first and test both after a write. `CompleteTrade` goes through the phases of the
completion (out of one bag, out of the other, into both) as the code does, and
`BreakOffTrade` is the early return when a bag is full. The new character of a user after
a logout is the same element as the old one. What is shown to the players is left out.

**Session** (auth/\*.go, database/socket.go, server/register.go, Character.Logout). A user
or a character in memory is an object `<<id, number of the load>>`; `cache` and `users`
name the current one. `task` is what the handler, the reader and one failing write of a
connection are waiting in. Users' rows are taken as written before they are read again;
one packet of a connection is handled at a time; an id rests for ten seconds after a
logout. Bans, passwords, the IP check of logins, creation of characters, ids of mobs and
pets, and the two microseconds between the reads and the writes of RemoveFromRegister are
not modelled.

**Drops** (database/drop.go, AI.DropHandler, player/loot.go). `register` is
`DropRegister` of one server. `Fall` gives a drop an id and its timer; the timers remove
(`RemoveDrop`) or free (`FreeDrop`) whatever is under their map and id; `BeginLoot` puts
the item into the bag, `FinishLoot` takes the drop out of the register of the map the
looter is on by then. `spinning` says that GenerateIDForDrop found no free id and holds
`drMutex` for ever. Which items drop, and who sees them, is not modelled; items stay in
the bag.

**Guild** (player/guild.go, database/guilds.go, deletion of a character, the item that
changes the faction). `guildOf` and `entries`/`role` are the two records of membership.
Handlers read `GuildID`, wait for the guild and act on what they read. Invite, ChangeRole,
Leave and Donate are one step, as the wait changes nothing for them except that a donation
of somebody expelled meanwhile counts. The limit of members is tested when one is invited
only. `ExpelFromGuildHandler` compares roles, never who is expelled, so that an officer can put
out the leader (`ousted`). One handler per character is in flight.

**Party** (player/party.go, database/party.go, Character.LeaveParty). `partyId`,
`parties` and `members` are the three records; `invited`/`accepted` the `PartyMember`s,
one per invitation; `timers` those of thirty seconds. Inviting, expelling and disbanding
wait for a write between their tests and their changes, and expelling once more before it
looks whether anybody is left (`BeginExpel`, `FinishExpel`, `EndExpel`). `Reject` tests nothing
but that there is a party: an answer that comes late also takes off who has accepted, or
who leads a party of its own by then. Who is in a dungeon is left open.

**Inventory** (Character.AddItem, ReplaceItem, SwapItems, SplitItem, CombineItems,
RemoveItem, DecrementItem, InventorySlots; player/inventory.go; database/inventory.go).
`slot` holds the objects of the character online, `rows` the table. Everything that waits
for the database between two changes is a call with slots in its hand: a removal, a
combination and a split of a whole stack delete the row first and blank the slot afterwards
(`FinishRemove`, `EmptySlot`). An update, started with `go` or not, takes effect when it is
called. `lock` stands for
`InvMutex` and `CanSwap`, which are taken and given back together. A swap that is refused
leaves both set (`SwapRefused`): whatever waits for the lock then waits until the
character is loaded again. Rules about who may wear what, activated and untradable items
only refuse: a refused swap is `SwapRefused`, a refused move changes nothing. Refusals
while trading or selling, failing statements, equipment and the registry `InventoryItems`
are not modelled; a stack is not combined with itself.

**MobLife** and **Mobs** (database/ai.go, Character.DealDamage and CheckMobDead, the attacks
that lead to them). MobLife is what a mob promises: it lives, dies, and comes back; a death
is paid to attackers whose blows were under way when the health ran out, to each at most
once. Mobs is the code: `hp`, `isDead` and `dealers` are `HP`, `IsDead` and the keys of
`DamageDealers`; `blow[c]` is where the goroutine of an attack is and what health it has
read; `due` holds the goroutines and timers of a death that have not run (the drop, the
clearing of the list, the timer that hides the mob, the respawn); `handling` is AIHandler.
Its refinement mapping (`Life == INSTANCE MobLife WITH ...`) takes a mob with health for
alive, whoever is about to be paid for paying, and while it is dead `there` for entitled;
KeepsPromise is MobLife's specification. `EndHandler` is a panic of the handler, after which
its timer is not set again. Targets are compared with pseudo ids of characters in one place
and with database ids in another (characters.go 8047), which decides whom a mob attacks only.
An attack is first aimed: `Attack` and `CastSkillHandler` leave a target that waits for the
packet of the damage (`Release`), `InstantAttack` and `PetAttack` a timer; the mob may die
and come back before the blow looks at its health again. DealDamage tells everybody about the
blow before it looks for a death, and returns when that fails (`CastFails`): no reward, and no
respawn either (`silent`; `Forgo` in MobLife). One attack of a character or its pet
is under way at a time. What is paid, what drops and where mobs walk is not modelled.

**Market** (player/sales.go, npc/consignment.go, Character.OpenSale to BuySaleItem and
RegisterItem to ClaimConsignmentItem). A slot is known by a pointer: a place in a bag, or an
object that no bag holds any more (`Refs`). `call[k]` is what a running call knows: a
purchase that has taken the gold and waits for the copy of the item, one that has copied it,
a registration, a consigned item on its way into a bag, a row about to be marked sold or
deleted in the background. A purchase names a slot of the buyer that nobody looks at: what
is in it is `buried`, since no slot holds it any more (its row, which stays, is not
modelled). Taking back and claiming find the row by the item alone, whoever asks. `Gain` and
`Lose` are what the rest of the program does to a bag. `UsedConsig` is not kept, as a timer
resets it whether the call has ended or not. Full bags, the limit of ten rows, refusals
while trading, visits, the search of the store and the persistence of gold are not modelled.

**Duels** (RespondPvPRequestHandler, MovementHandler, DealDamageHandler, DealDamageToPlayer,
RespawnHandler, StartGameHandler; Character.Handler, HandleBuffs, StartPvP, EndPvP, AddExp,
Logout). The server does not remember requests, so any answer may come at any time. A
countdown is a chain of timers of each side that knows the character, not the duel:
`count[c]`. Blows that land late are `MobHits`. `Heal` is every way to health (the handler's
recovery, potions, a new level, skill 41700). EndPvP and a death write to the opponent in
the middle: `closing` are those that wait there. EndPvP (of a Logout or a ChangeMap) has
cleared nobody by then, a death itself only; `FinishEndPvP` and `FinishDeath` clear the
characters they read before, whatever duels these are in now, a rematch included. After a
Logout's EndPvP the character leaves the register; in between it can be drawn into another
duel. A Logout that meets an opponent without a Socket panics and stays where it is
(`LogoutBreaksOff`, "stuck"). `RespawnHandler` tests nothing, so Respawn has no guard. Names
of maps are the set Outlaws.

**Goods**, **Pets**, **Use**, **Workshop**, **Npc**, composed in **Belongings**: one
character and everything that is done to what it carries, one handler at a time, with the
timers of what is on, of eyeballs and of pets in between.

- *Goods* is the vocabulary: `c` is the Character record (slots, rows, gold, buffs, marks),
  and AddItem, RemoveItem, DecrementItem, Save (`Update`), DeleteRow (`Delete`) are functions
  from one record to the next, since a handler is a chain of them. Every operation that uses
  up the last of a slot locks `ItemMutex`; once somebody has returned with it locked, the next
  is `stuck`, and the rest of its handler never happens.
- *Use* is `UseConsumable`, type by type, and the packets that lead to it: charms, potions,
  spirits, boxes, tonics, cards, books, forms, eyeballs, items that run by the minute.
  Switching such an item on or off waits for the mutex, so it is a Begin... and an End... action.
  `Tick` is the part of `Handler` that ages what is on. `ComeBack` loads everything again.
- *Pets* is TogglePet and PetHandler: `beats` are timers that will call PetHandler, `walking`
  the chain of timers of the walk that has the MovementToken, `spells` the timers of skills.
- *Workshop* is npc/blacksmith.go, npc/jangbo.go, npc/exhange.go, the masters and chests of
  player/actions.go, holy water and enchanting. Chances are choices, tables constants.
- *Npc* is the buttons of PressButtonHandler that give, take or change something, with the
  experience and the days that make them possible again; `career` is class, step of level and
  what a day leaves. The transform scrolls are here too, as they take the class as well as
  books. BecomeDivine takes what it asks for and gives nothing: what would come then is
  commented out (npc/open.go 1014-1562). Divine characters are made by the client at their
  creation, or by a command (bound: up to level 100).
- *Belongings* starts with any of `Stocks` and takes any of these steps.

What a use does to health, place and statistics, refusals for level and type of character, the
cash of the account, loyalty, fullness and experience of pets, distances, menus and plain
teleports are not modelled. Two handlers of one character that meet in a slot are the subject
of Inventory.

The `MC*` modules hold the constants of the runs.

## The runs

| run | states | instance | what it shows |
|---|---|---|---|
| trade_protocol | 127,000 | 3 characters, 2 requests, one logs out | Pairing: a character in a trade has its partner in it; RequestSettles: no request blocks its sender for ever |
| trade_goods | 1,392,000 | 2 characters that have either 3 items (bags of 2 slots, 2 trade slots) or gold of width 4; 1 edit and 2 acceptances in flight | types; OffersFrozen: what was accepted is what is exchanged; GoldConserved; ItemsUnique: no item twice, rows as in memory; ExchangeIsAgreed: goods move only by the one agreed completion |
| session_back | 1,778,000 | 1 character, 2 connections, 2 ids | OnlineIsFound: players are found by the id they carry, through kicks and late closes |
| session_out | 284,000 | 2 users, 1 connection, failing writes, 1 id | IdsKept: an id leads to who carries it (RegisterAgrees), and none is lost (NoIdLost); EveryoneOut: whoever is closed leaves the game |
| drops | 69,000 | 2 characters, 2 maps, 1 id per map, 2 drops | LootedOnce; DropsStay: a drop goes by its own loot or timer; TimedDropsGo |
| guild | 985,000 | 3 characters, 2 guilds of 2, 2 handlers in flight | GuildsAgree: both records of membership and the donations agree; GuildsAreLed: a guild keeps its leader, unless an officer expels it |
| party | 371,000 | 3 characters, 2 parties, 2 invitations | PartiesAgree: the three records agree and every party is led; InvitesSettle |
| inventory | 298,000 | 2 characters, a bag of 2 slots, a bank of 1, 2 rows, 2 kinds | BagIsKept: memory and rows agree (SavedAsHeld), also after a crash (NoneHidden); NothingLostInMoves |
| mobs | 2,158,000 | 2 attackers, one mob of any kind with 2 health, 2 deaths under way | KeepsPromise: the code implements MobLife; LifeIsNew: a life knows nothing of the last, the mob is shown (SeenIfAlive) and claimed by who struck it in this life (DealersKnown); ComesBack; HealthComesBack: by the events it should come back by |
| market | 319,000 | 2 characters, 2 items, bags of one slot, 3 calls at a time | SalesBalance: no item twice or lost but what a purchase has buried, the store agrees with its rows (GoodsKept), gold goes into commissions only (GoldKept); NoDebt: gold wraps around only after two of one's own calls |
| duels | 1,640,000 | 3 characters, 2 duels, 1 end of a duel that waits, 1 dead at a time | DuelIsRegular: a duel has two parties (DuelOfTwo) and begins after its own countdown (StartedByCount); DeathIsNoticed |
| belongings | 135,000 | 1 character, 32 stocks of a few things of 40 types, with pets and NPCs | RowsFollow: what is held is what would be loaded; GearIsWhole: a code for each plus and for no other; EffectsFit: spirits apart, one of a kind on, forms worn, books once, classes as earned, pets with one beat; RunsOut: what is on runs out |

*Bounds.* Every bound is a CONSTANT, marked "bound" where it is declared. They are the
smallest at which every action fires and the races happen: a race in this code takes two
handlers and one object they share, a mix-up of ids takes one id used twice, a stale timer
one thing that came after the one it was made for, and a third character somebody outside the
pair. The trade runs divide the questions, as items, gold and three characters together are
too many states. MaxCalls is 1 in the inventory run, where the second call of a race is one
that does not wait; the theorems are about any number of calls that wait. In the mobs
run a blow takes one health or more than there is, and a second death begins while the
goroutines of a first are still waiting, and aims outlast lives; in the market run three
calls are a purchase with two background statements, or two calls that meet and one more; two
duels are enough for every timer of one to meet the other, and for the end of one that waits
to meet the next. The guild, inventory, mobs, market
and duels runs use symmetry among the characters; they check no liveness.

In the belongings run a stock holds what can act on one another: things of up to four types
in four slots (one of them of the expanded bag, and one more for what is worn), stacks of one
or two, gold to 9, a pet, some NPCs with their buttons. 32 stocks cover every type, craft,
button and pairing of them that share a mark, a buff, a mutex or a slot. An item goes to plus 3
where the code goes to 15, and no stone helps from 2 on where it is 12; a bagua takes two
stones where it is three. At most two beats of a pet are waiting. Time is a minute's parity,
and days pass where a gift depends on them. Between the two steps of switching a timed item
on or off slots are not emptied and the character stays.

*Fairness.* Only what the program does by itself is fair. Timers fire (all modules). In
Session and Drops the database answers and a write ends, since the client takes it or the
system gives the connection up, so handlers that have begun go on, and a reader finds its
connection closed. In Belongings a use of a timed
item that began ends (`EndTimedUse`), and minutes pass again and again as long as the timer
of `Handler`, set anew every second, goes on. Players' packets are never fair.
`AcceptTradeHandler` writes with `conn.Write`, past the token and its seven seconds: it is not
taken to be fair, and a stalled one is what `stale` is about.

*Deadlock* is not checked: with the bounded number of requests used up and nobody in the
game, a server may well be idle.

## What is proved

The proofs hold for any number of characters, connections, ids, slots and drops, and use
only the assumptions the modules name (`...Assumption`), which TLC evaluates in the runs.

- **TradeProofs**: the inductive invariant IInv is TypeOK, Issued (ids are issued in order,
  so that a new one is in no trade), Pairing and AcceptanceClears. Pairing needs Issued:
  without it a new id could be that of a trade that exists. From IInv follow Typing,
  TradesPair, AcceptancesClear and, as action properties, AcceptedOffersStay and
  ExchangesAreAgreed. A completion is two phases, one for each side's offer. In each, items
  leave different slots and take different free ones, as the search gives each rank a slot
  of its own (SlotOfRank), so that an item in one slot is in one slot afterwards, and in no
  slot if it was in none (PhaseKeeps): ItemsAreUnique, from ItemsUnique and Partners (nobody
  trades with itself). GoldIsConserved: what one side gives the other gets, and the two
  remainders of the division by the word add up, so the sum of both purses is the same
  modulo the word.
- **SessionProofs**: TypeOK, RegisterAgrees and NoIdLost are inductive together, as an id
  that is given back is carried by nobody only if the register and the carriers agree.
  SessionTyping, IdsAreKept. PlayersAreFound needs what handlers know of the objects they
  work on: what the cache, a connection or a logout holds has been loaded (AllLoaded), a
  reader that reads has not begun to close (ReadersRead), who may start the game or has
  carries an id (CarriesId), and a logout takes the character out of the game and off its
  connection before the id goes back (OutFirst). Most steps neither load anybody nor
  put anybody into the game: one lemma (QuietStep) is about all of them.
- **MobsDropsProofs**, Drops: Inv adds to DropsTypeOK that drops not made yet are nowhere
  (Fresh), that a drop is under one id of one map (Placed), that what is in a bag and still
  on the ground is in the hand of the looter that has it (TakenByHand), and that what timers
  and hands name is their own drop, nothing, or raced (TimersOwn, HandsOwn). Then
  DropsLootedOnce and DropsStayDown.
- **MobsDropsProofs**, Mobs: types are inductive; beside them UnderWay says that who is
  about to find the mob dead is among those whose blows were under way when its health ran
  out, which is what a payment needs. MobsTyping, MobsKeepPromise (the refinement: every
  step of Mobs is a step of MobLife or a stutter) and MobsComesBack (but for the mob that
  died unheard, `silent`). All that comes before the look at the health (aims, packets,
  timers) is one lemma: it changes where the attack is, and nothing else. NewLife says that
  as long as no life was odd one death at most is being paid or has something left to do,
  whose payer finds a list that is not empty (OneDeath), and that the list is empty after a
  death, or about to be, or named by `kept` (Cleared): LivesAreNew. From the same invariant,
  as an action property, HealthComesBackOnly.
- **MarketInventoryProofs**, Market: MarketTyping, also for calls that meet, and
  MarketNoDebt from Thrift: as long as nothing was crossed or hasty, who has looked at its
  gold for a fee or a price still has it. SalesAreBalanced is about all goods and all gold,
  and holds as long as no two calls met. Its invariant HeldOnce says so for the calls under
  way too: two calls work on different things (Apart), each holds what its step says
  (CallsFit), every item is in one place (ItemsFit), and what is in the store is on offer or
  in the hands of a call (StoreFits); what a purchase buries is in no place from then on. A
  step moves gold between one purse, one call and one row: lemmas about SumOf (what a sum
  does when one addend changes, SumChanged) give GoldAlways. MarketAssumption asks for
  finitely many characters and items, over which these sums run.
- **MarketInventoryProofs**, Inventory (beside Market, with which it shares only the lemmas
  about sums over finite sets): BagTyping, BagsAreKept and MovesLoseNothing. BagIsKept leaves
  out the slots that waiting calls have in hand, and so cannot be inductive: Kept says what
  those calls know. Until something is torn (Whole), the slot of an item that waits for its
  row is still as it was copied, the row of an item about to go is there until it is deleted,
  and the copies of an arrangement are the slots, each once, whose rows name the old place or,
  once saved, the new one (CallFits); slots in no hand are blank or what their rows say, and
  hands, ids and fresh ids are apart. Until an item strayed as well (Owned), `character_id`
  says whether a row is in the bank, what the character loads is in a slot, and the rows of
  the user's other characters are apart. Each action has one lemma (...Keeps); what they have
  in common, that what they do not write stays as it was, is in ActsWhole and ActsOwned. For
  MovesLoseNothing the items of a kind are a sum over slots, but for those about to be blanked
  (Doomed), whose items are elsewhere already: two slots exchange what one gains and the other
  loses (SumShifted), an arrangement permutes them (SumPermuted).
- **DuelsProofs**: DuelsTyping, DuelsOfTwo, DuelsStartByCount (both: DuelsAreRegular) and
  DeathsAreNoticed. The last two are inductive beside the types. For DuelsOfTwo the duels are
  numbered (Numbered): who has the same number has a duel with each other (SameDuel), and an end
  that waits reaches everybody who is still in its duel (ReachesAll), a death only the other
  one (DeadAreOut). Beside them Parties says that who is off is in no duel (OffAlone), and
  that nobody but the stale and those about to be cleared has a duel with one who is
  leaving (LeavingAlone) or has another number (Mutual).
- **GuildProofs**: GuildType, GuildAgrees and GuildLed. Beside the types the invariant holds
  Ties: a guild that is not there lists nobody (Fresh); a founder can pay and a joiner is
  free as long as they wait, and who dissolves a guild still leads it and has everybody in
  it still to tell (Waiting); who is in no guild has nothing given, unless deleted or
  dissolving (Settled); and the two directions of GuildsAgree. Without Waiting the second
  half of a handler could undo what was done meanwhile. DonationsCover is about
  cardinalities: one more donation is one more element. GuildAssumption asks for finitely
  many characters. GuildLed rests on the same Ties: a leader that is neither odd nor ousted
  goes from its guild only by dissolving it, and then Waiting says what is still to be done.
- **PartyProofs**: PartyType and PartyAgrees. Follows says that a PartyID leads to a party
  that lists its bearer and whose leader still has its own PartyID, or is disbanding and
  has the bearer still to tell; Frame says that a registered party is led by whoever is
  registered with it, that an invitation is in one place of one list, and what a waiting
  handler knows. From both follows that whoever accepted finds the party it accepted.

- **BelongingsProofs**: BelongingsTyping, RowsAreFollowed, GearStaysWhole and EffectsStayFit,
  all four from BelongingsInvariant. An action of Belongings is a chain of operations on one
  record, folded over sets of slots, kinds or gifts, so the proof goes by operations. After(a,
  G, E, F, D) are the records that a handler which began with `a` may have come to: items are
  whole, what is held is saved but for the slots in E, nothing became in use, a form that is
  seen is still there, what can be switched keeps its mark, the slots in F keep their kind and
  those in D hold nothing that can be switched. Each operation of Goods has a lemma that it
  stays in After (SaveAfter, DecrementAfter, AddItemAfter, ...), and so has each fold
  (SpentAfter, GoneAfter, BurntAfter, ChosenAfter, PiecesAfter, GivenAfter): a fold that stays
  in a set when its steps do is FoldStays, and that the fold of the library is one is
  FoldExists and FoldsAgree. Sound(c, using, met) is what holds between handlers; beside
  what the properties say, it says that who is about to switch something still has it
  (InHand), and that if any other of its kind is on by then, the kind is marked (Guarded):
  without that a use that began could end beside another, and OneInUse would not be inductive.
  Each handler has a lemma (StrengthenSound, UseTonicSound, ...). What switches items goes by
  TurnedSound, and what a minute takes by AgesShrinks, slot by slot, and AgedForm: who is
  seen as a form after it has the last form that was passed on. For BooksOnce the places of
  a kind of books are filled from the first one on (BooksKept); for PetFits a pet that
  is out has its handler set and an owner (PetKept); CareerFits is inductive as it
  stands, its second half as long as no scroll was used (`forgot`).

Each proof has one step per action. Three more things recur. Sums over finite sets and
searches for the least free slot are proved about without induction over an operator: a
set without a smallest counterexample has none (LeastNumber, LeastSubset). An invariant
that speaks of `vars'` is carried over by PTL from the same statement about `vars`. And
invariants that hold only as long as nothing odd, crossed or broken has happened are stated
with that guard, never with the actions left out that cause it.

Only model-checked is what must eventually happen (RunsOut and the other liveness properties),
which is outside this prover. Every invariant and every action property of the runs is
proved. The assumptions on the constants of Goods, Use,
Workshop and Npc say what its invariants rest on beside the code: what is switched on and
off has a time as its quantity, so it is neither stacked, nor handed in, nor paid with.

## What the work turned up

The history variables above name the races. Beside them:

- a trade that fails because a bag is full is broken off (`BreakOffTrade`) and not reverted,
  although the completion collects callbacks for that and runs them (player/trade.go:567,
  `if !success { // trade failed`): FindFreeSlot answers -1 without an error, and the handler
  panics before it gets there;
- the timers of 200 ms at the end of a drop's life free it for everybody instead of removing
  it (database/ai.go 1063), so drops go only when they are looted, and their ids run out;
- `OnClose` of an old connection resets `ConnectedIP` and the entry in `Sockets` of the new
  one (database/socket.go 223), so that the next login (auth/login.go 74) does not take the
  user to be online;
- a refused swap locks the bag until the next login;
- items swapped between bag and bank keep their `character_id`, and then show up in, and
  hide items of, the user's other characters;
- an arrangement that is interrupted leaves two items with one slot;
- a timer of a party invitation leaves `PartyID` behind;
- a refusal that comes late takes a character out of the party it leads by then;
- an officer can expel the leader of the guild, who then leads a guild it is not in;
- a mob whose killing blow cannot be told to everybody (`Cast` fails) stays dead for ever;
- a purchase from a shop into a slot that is not free loses what the buyer had in it;
- payments for a mob that take longer than its respawn hide the living mob;
- an answer to a duel looks at one side only, and timers of a duel act on the next one,
  as does the end of a duel that had to wait for its write;
- a new level while dead leaves `Respawning` set, and the next death is not noticed;
- gold that two of one's own calls spend wraps around, and is saved as zero;
- a timed item refused because another of its kind is on leaves `ItemMutex` locked, after
  which nothing of that character runs out any more, and every use of a last item waits;
- tonics, forms and rites delete rows under slots that keep their things, which are gone at
  the next login; an arena takes forms off in memory only;
- a use and ActivateTimeLimitedItem put two items of one kind on;
- a transform scroll used above level 200 leaves a character there without a class;
- a pet called again within a second acts twice a second from then on; one without its food,
  or told to move at the end of a duel, stands still.

## Further hazards

PROJECT.json lists the hazards that properties watch. These are others that were found while
reading, without a property.

| where | kind | what | why no property |
|---|---|---|---|
| `player/trade.go:120` | interleaving | two answers to one request pass the test for an existing trade together, and both start one | the test and Trade.New are microseconds apart with nothing blocking between them; the model takes them as one step |
| `player/trade.go:138` | protocol sequence | an answer is not compared with the one the request was sent to: anybody without a request of its own may accept it | in Trade (AcceptRequest); Pairing holds all the same |
| `auth/start_game.go:877` | stale state | a drop is removed between GetNearbyDrops and GetDrop, which answers with an empty drop instead of nil: its Item is then dereferenced | what players see of drops is not modelled |
| `player/guild.go:204` | resource bound | the limit of fifty members is tested when a member is asked, not when it joins: requests sent before the guild was full all go through | the limit is in the model, no property covers it |
| `player/guild.go:260` | protocol sequence | an acceptance names the leader of the guild, not the guild: when the leader has another guild by then the character joins that one | in the model; no property forbids it |
| `database/guilds.go:114` | atomicity | SetMember reads and writes the list without the mutex that AddMember and RemoveMember hold: one of two changes at the same time is lost | ChangeRole takes one step in the model |
| `player/guild.go:278` | crash recovery | a join saves the guild at once and the character only with its next update: after a crash in between the guild lists a character whose GuildID is -1 | what the database holds is not modelled |
| `auth/character_deletion.go:57` | partial failure | the deletion of a leader deletes the guild and does not tell its members, whose GuildID goes on to name it | in Guild, excluded by name (`odd`) |
| `database/characters.go:7558` | protocol sequence | LeaveParty does nothing in a dungeon: a character that logs out there stays in the list of its party, and the object it comes back with has no PartyID | in Party, excluded by name (`astray`) |
| `database/characters.go:1671` | partial failure | a statement that fails empties the slot in memory: what a stack held before is gone there, while its row goes on to hold it | failing statements are not modelled |
| `npc/open.go:2467` | partial failure | the members of a party pay the entry of a dungeon one after the other: the first ones have lost their item when the next has none | EnterDungeon of Npc is that of the leader alone |
| `database/characters.go:1838` | deadlock | a swap that is refused returns with InvMutex locked and CanSwap set: until the character is loaded again every move, split and combination waits for ever | SwapRefused is an action of Inventory; nothing in the repository says what should happen |
| `database/characters.go:3419` | numeric edge | a stack that is combined with itself is doubled and then deleted | the client never sends a slot twice, and the model leaves it out |
| `player/inventory.go:378` | stale state | after an arrangement InventoryItems still names the slots where the items were | the registry of loaded items is not modelled |
| `database/characters.go:8163` | interleaving | the counter of the dungeon is created and counted down outside its mutex | dungeons are not modelled |
| `database/characters.go:8518` | stale state | a temple asks for the guild of whoever dealt most, who is nil when another death has cleared the list meanwhile: the handler panics; and it goes to the guild of the last to strike | temples in Mobs have no owner |
| `database/characters.go:4984` | resource bound | FindFreeSlot answers -1 without an error when the bag is full, and the slot is used as an index: the handler panics | bags in Market are not full when a consigned item is bought |
| `player/inventory.go:609` | atomicity | gold is tested and then moved between bag and bank without a lock over both: two packets pass the test with the same gold | the gold of the bank is not modelled |
| `database/ai.go:1169` | liveness | a panic in the handler of a mob is recovered before the timer that would call it again is set: the mob stands still for ever | EndHandler of Mobs; nothing that could panic is modelled |
| `database/startwar.go:105` | ordering | every entry to a full lobby makes a new war and a ready check of its own | the lobby (JoinToWarLobby) has no caller |
| `database/startwar.go:135` | interleaving | ResetWar deletes from the maps of the war while packets add to them and attackers read them, without a lock | the Go runtime ends the process; there is no state after it |
| `dungeon/YingYang.go:56` | timeout retry | the timer of a dungeon sends away whoever is inside when it fires, also in a later visit | dungeons are not modelled |
| `database/socket.go:303` | deadlock | a write that has waited seven seconds for the one token of its socket closes the connection from inside whatever handler wrote, with that handler's locks held | the locks of each component are looked at in its module; Session has the write that fails |
| `server/register.go:94` | resource bound | all pseudo ids are taken: GenerateID fails after the character has been attached to the connection, and the game can be started without an id | in Session: IdsKept holds, OnlineIsFound excludes the object by name (`odd`) |
| `player/system.go:23` | protocol sequence | a way out is taken twice, from two goroutines or while another still waits in a write | in Session: IdsKept and EveryoneOut |
| `auth/server_list.go:78` | stale state | listing the servers resets IsOnline of characters that play on another connection | in Session, excluded by name (`odd`) |
| `player/guild.go:374` | stale state | expelling and dissolving reset GuildID without looking at it | in Guild, excluded by name (`odd`) |
| `database/characters.go:7571` | protocol sequence | disbanding tells only those who have accepted: the others keep PartyID and find the next party of that leader | in Party, excluded by name (`astray`) |
| `database/characters.go:7448` | interleaving | the seller's gold is added to without AddingGold: a gain of the seller meanwhile is lost | in Market, excluded by name (`crossed`) |
| `npc/blacksmith.go:256` | protocol sequence | the handlers of dismantling, fusion and extraction remove items although the work was refused | in Workshop; nothing says what should happen |
| `database/characters.go:5909` | partial failure | a gift box takes its gold before the free slots are counted | in Use; nothing says what should happen |
| `database/characters.go:5252` | partial failure | a spirit whose item finds no room panics after the buff was made | in Use: the spirit works and is not used up |
| `database/characters.go:4445` | partial failure | an extraction with a full bag takes the code off the item and saves nothing | in Workshop; RowsFollow excludes the slot (`behind`) |
| `database/characters.go:5604` | stale state | the search for a skill book stops at the first free place: after a scroll took books out, one can be learned twice | in Use; EffectsFit excludes it by name (`forgot`) |
| `database/characters.go:3769` | numeric edge | SellItem removes the whole stack and pays for the part that was named | in Workshop; nothing says what should happen |
| `database/characters.go:5363` | numeric edge | the draw of the plus of a stone in a fortune box indexes past its rates, after gold and key are gone | in Use |
| `npc/open.go:2656` | numeric edge | who ascends with a class that no table names looks up book 0 and panics: tribute and skills are gone, no class came | in Npc |
| `npc/open.go:2530` | partial failure | the flag of the daily tickets is cleared before there is room for them | in Npc |
| `player/actions.go:719` | partial failure | a master made without room for it panics when the materials are gone | in Workshop |
| `player/attack.go:395` | partial failure | a tamed mob for which there is no room: AddItem answers nil, the handler panics before it forgets the mob, and every packet of damage after that is about the same mob | taming gives no item in Mobs |
| `database/characters.go:1562` | stale state | dragon scales of different plus are put on one stack | kinds that stack have no plus in Goods |
| `database/characters.go:2430` | numeric edge | the fullness of a pet is a byte that wraps around, and its CHI never recovers (the smaller of what it is and what it would be) | numbers of pets are not modelled |

## Not modelled

- **Tables and formulas**: a third of the program. What the branches of UseConsumable,
  PressButton and makeMaster do to slots, gold and classes is modelled type by type; that there
  are several hundred items with a branch each is a constant (`Type`). Stats, experience,
  damage, the drop tables and CheckMobDead's rewards are arithmetic over tables loaded from the
  database. Chat commands of administrators have no state of their own.
- **Wars**: chains of timers over maps that are changed without a lock, where a fault ends
  the process instead of leading to a state that a property could be about. The lobby and
  its ready check have no caller.
- **Dungeons**: placing of mobs around one counter and one timer for each dungeon.
- **Buffs, daily resets, characters and accounts**: single statements of the database.
- **Chat, packets, NPC menus, web, API, logging, configuration**: formatting, I/O and
  generated code.

