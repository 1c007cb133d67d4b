-------------------------- MODULE SavedPairsProofs --------------------------
(***************************************************************************)
(* Machine-checked proofs about SavedPairs and TokenResolution, for any    *)
(* seeds, tokens, commands, buttons and presses: first the table and the   *)
(* commands, then what a button may still do.                              *)
(***************************************************************************)
EXTENDS SavedPairs, TLAPS

-----------------------------------------------------------------------------
(* One command at a time.                                                  *)

\* A step of command c leaves it as k, and no answered command is touched.
Moves(c, k) ==
    /\ k \in CommandRecords /\ CommandInv(k, DOMAIN tokens', SureSeeds')
    /\ commands' = [commands EXCEPT ![c] = k]
    /\ commands[c].pc # "answered"

\* The table only grows, by rows that leave the sure seeds and the symbols alone;
\* the sure seeds only become fewer.
TableGrows ==
    /\ DOMAIN tokens \subseteq DOMAIN tokens' /\ DOMAIN tokens' \subseteq Addresses
    /\ tokens' \in [DOMAIN tokens' -> Symbols] /\ TableInv'
    /\ up' \in BOOLEAN /\ misread \subseteq misread' /\ misread' \subseteq DOMAIN Seeds

LEMMA NoCommandFacts ==
    /\ NoCommand \in CommandRecords /\ NoCommand.pc = "idle" /\ NoCommand.found = <<>>
    /\ [NoCommand EXCEPT !.pc = "failed"] \in CommandRecords
    /\ \A rows, seeds : /\ CommandInv(NoCommand, rows, seeds)
                        /\ CommandInv([NoCommand EXCEPT !.pc = "failed"], rows, seeds)
<1>1. NoCommand \in CommandRecords /\ NoCommand.pc = "idle" /\ NoCommand.found = <<>>
  BY DEF NoCommand, CommandRecords, CommandPc
<1>2. ASSUME NEW n \in CommandRecords, n.found = <<>>
      PROVE  /\ [n EXCEPT !.pc = "failed"] \in CommandRecords
             /\ [n EXCEPT !.pc = "failed"].pc = "failed"
             /\ [n EXCEPT !.pc = "failed"].found = <<>>
  BY <1>2 DEF CommandRecords, CommandPc
<1>3. /\ [NoCommand EXCEPT !.pc = "failed"] \in CommandRecords
      /\ [NoCommand EXCEPT !.pc = "failed"].pc = "failed"
      /\ [NoCommand EXCEPT !.pc = "failed"].found = <<>>
  BY <1>1, <1>2, Zenon
<1>4. ASSUME NEW n, n.pc \in {"idle", "failed"}, n.found = <<>>, NEW rows, NEW seeds
      PROVE  CommandInv(n, rows, seeds)
  BY <1>4 DEF CommandInv
<1> DEFINE failed == [NoCommand EXCEPT !.pc = "failed"]
<1> HIDE DEF failed
<1>5. failed \in CommandRecords /\ failed.pc = "failed" /\ failed.found = <<>>
  BY <1>3, Zenon DEF failed
<1>6. \A rows, seeds : CommandInv(NoCommand, rows, seeds) /\ CommandInv(failed, rows, seeds)
  BY <1>1, <1>4, <1>5
<1> QED BY <1>1, <1>5, <1>6, Zenon DEF failed

LEMMA FailMoves ==
    ASSUME ResolutionInv, NEW c \in Commands, commands[c].pc # "answered", FailCommand(c)
    PROVE  Moves(c, [NoCommand EXCEPT !.pc = "failed"])
BY NoCommandFacts DEF FailCommand, Moves

LEMMA TableStays ==
    ASSUME ResolutionInv, UNCHANGED <<tokens, up, misread>>
    PROVE  TableGrows /\ SureSeeds' = SureSeeds
BY DEF ResolutionInv, TokensTypeOK, TableInv, TableGrows, SureSeeds

\* What is said of a command is said of more rows and of fewer seeds.
LEMMA CommandKept ==
    ASSUME NEW k, NEW rows, NEW seeds, NEW more, NEW fewer, CommandInv(k, rows, seeds),
           rows \subseteq more, fewer \subseteq seeds
    PROVE  CommandInv(k, more, fewer)
<1>1. \A i \in DOMAIN k.found : k.found[i] \in more /\ Means(k.inputs[i], k.found[i], fewer)
  <2> TAKE i \in DOMAIN k.found
  <2>1. k.found[i] \in rows /\ Means(k.inputs[i], k.found[i], seeds) BY DEF CommandInv
  <2> QED BY <2>1 DEF Means
<1>2. k.pc \in {"asking", "saving", "saved"} =>
          ReportedAddresses(k.inputs[Len(k.found) + 1]) \cap fewer = {}
  BY DEF CommandInv
<1> QED BY <1>1, <1>2 DEF CommandInv

\* What is found next joins what the command has, and is what was meant.
LEMMA ResolvedMoves ==
    ASSUME ResolutionInv, NEW c \in Commands, NEW address \in DOMAIN tokens,
           commands[c].pc \in {"resolving", "saved"},
           Means(Input(c), address, SureSeeds), Resolved(c, address),
           UNCHANGED <<tokens, up, misread>>
    PROVE  \E k : Moves(c, k) /\ k.pc # "answered"
<1> DEFINE found == Append(commands[c].found, address)
           pc == IF Len(found) = 2 THEN "prepared" ELSE "resolving"
           chain == commands[c].explicitChain /\ Len(found) = 1
           k == [commands[c] EXCEPT !.pc = pc, !.found = found, !.report = <<>>,
                                    !.explicitChain = chain]
<1>1. commands[c] \in CommandRecords /\ CommandInv(commands[c], DOMAIN tokens, SureSeeds)
      /\ address \in Addresses
  BY DEF ResolutionInv, TokensTypeOK
<1>2. /\ commands[c].found \in Seq(Addresses) /\ Len(commands[c].found) \in 0..1
      /\ commands[c].user \in Traders /\ commands[c].inputs \in NamedPairs
  <2>1. Len(commands[c].found) < 2 /\ commands[c].user \in Traders
        /\ commands[c].inputs \in NamedPairs
    BY <1>1 DEF CommandInv
  <2>2. commands[c].found \in Seq(Addresses) BY <1>1 DEF CommandRecords
  <2>3. Len(commands[c].found) \in 0..1
    <3>1. PICK n \in Nat : n = Len(commands[c].found) BY <2>2
    <3>2. n < 2 BY <2>1, <3>1, Zenon
    <3>3. n \in 0..1 BY <3>2
    <3> QED BY <3>1, <3>3, Zenon
  <2> QED BY <2>1, <2>2, <2>3
<1>3. /\ found \in Seq(Addresses) /\ Len(found) = Len(commands[c].found) + 1
      /\ found[Len(found)] = address
      /\ \A i \in DOMAIN commands[c].found : found[i] = commands[c].found[i]
      /\ DOMAIN found = DOMAIN commands[c].found \cup {Len(found)}
  BY <1>1, <1>2
<1>4. commands' = [commands EXCEPT ![c] = k]
  BY DEF Resolved
<1>5. chain \in BOOLEAN OBVIOUS
<1>6. pc \in {"prepared", "resolving"} /\ (pc = "prepared" <=> Len(found) = 2) OBVIOUS
<1>7. \A i \in DOMAIN found : /\ found[i] \in DOMAIN tokens
                              /\ Means(commands[c].inputs[i], found[i], SureSeeds)
  BY <1>1, <1>3 DEF CommandInv, Input
<1> HIDE DEF found, chain, pc
<1>8. /\ k \in CommandRecords /\ k.pc = pc /\ k.found = found /\ k.user = commands[c].user
      /\ k.inputs = commands[c].inputs
  BY <1>1, <1>3, <1>5, <1>6 DEF CommandRecords, CommandPc
<1> HIDE DEF k
<1>9. CommandInv(k, DOMAIN tokens, SureSeeds)
  <2>1. Len(found) \in 1..2 BY <1>2, <1>3
  <2>2. \A i \in DOMAIN k.found : /\ k.found[i] \in DOMAIN tokens
                                 /\ Means(k.inputs[i], k.found[i], SureSeeds)
    BY <1>7, <1>8
  <2>3. k.pc = "resolving" => Len(k.found) < 2
    <3>1. PICK n \in 1..2 : n = Len(found) BY <2>1
    <3>2. k.pc = "resolving" => n # 2 BY <1>6, <1>8, <3>1
    <3>3. n # 2 => n < 2 OBVIOUS
    <3> QED BY <1>8, <3>1, <3>2, <3>3
  <2>4. k.pc = "prepared" => Len(k.found) = 2 BY <1>6, <1>8
  <2>5. k.pc \in {"prepared", "resolving"} /\ k.user \in Traders /\ k.inputs \in NamedPairs
    BY <1>2, <1>6, <1>8
  <2> QED BY <2>2, <2>3, <2>4, <2>5 DEF CommandInv
<1> QED BY <1>4, <1>6, <1>8, <1>9, TableStays DEF Moves

LEMMA HandleCommandMoves ==
    ASSUME ResolutionInv, NEW c \in Commands, NEW u \in Traders, NEW pair \in NamedPairs,
           NEW explicitChain \in BOOLEAN, HandleCommand(c, u, pair, explicitChain)
    PROVE  TableGrows /\ \E k : Moves(c, k) /\ k.pc # "answered"
<1>1. PICK n \in CommandRecords : n = NoCommand /\ n.found = <<>> BY NoCommandFacts
<1> DEFINE k == [n EXCEPT !.pc = "resolving", !.user = u, !.inputs = pair,
                          !.explicitChain = explicitChain]
<1>2. commands' = [commands EXCEPT ![c] = k] BY <1>1, Zenon DEF HandleCommand
<1>3. /\ k \in CommandRecords /\ k.pc = "resolving" /\ k.found = <<>> /\ k.user = u
      /\ k.inputs = pair
  BY <1>1 DEF CommandRecords, CommandPc
<1> HIDE DEF k
<1>4. CommandInv(k, DOMAIN tokens, SureSeeds) BY <1>3 DEF CommandInv
<1>5. UNCHANGED <<tokens, up, misread>> /\ commands[c].pc # "answered"
  BY DEF HandleCommand, CommandAt
<1> QED BY <1>2, <1>3, <1>4, <1>5, TableStays DEF Moves

\* The symbol of a sure seed is in the seed's row only.
LEMMA ResolveSymbolMoves ==
    ASSUME ResolutionInv, NEW c \in Commands, ResolveSymbol(c)
    PROVE  TableGrows /\ \E k : Moves(c, k) /\ k.pc # "answered"
<1>1. UNCHANGED <<tokens, up, misread>> /\ commands[c].pc = "resolving"
      /\ Input(c).by = "symbol"
  BY DEF ResolveSymbol, CommandAt
<1>2. CASE FailCommand(c)
  <2>1. Moves(c, [NoCommand EXCEPT !.pc = "failed"]) BY <1>1, <1>2, FailMoves
  <2>2. [NoCommand EXCEPT !.pc = "failed"].pc # "answered"
    BY NoCommandFacts DEF CommandRecords, NoCommand
  <2> QED BY <1>1, <2>1, <2>2, TableStays
<1>3. ASSUME NEW address \in FindBySymbol(Input(c).name), Resolved(c, address)
      PROVE  \E k : Moves(c, k) /\ k.pc # "answered"
  <2>1. address \in DOMAIN tokens /\ tokens[address] = Input(c).name BY <1>3 DEF FindBySymbol
  <2>2. \A a \in SureSeeds : Input(c).name = Seeds[a] => address = a
    BY <2>1 DEF ResolutionInv, TableInv, SureSeeds
  <2>3. Means(Input(c), address, SureSeeds) BY <1>1, <2>2 DEF Means
  <2> QED BY <1>1, <1>3, <2>1, <2>3, ResolvedMoves
<1> QED BY <1>1, <1>2, <1>3, TableStays DEF ResolveSymbol

LEMMA ResolveAddressMoves ==
    ASSUME ResolutionInv, NEW c \in Commands, ResolveAddress(c)
    PROVE  TableGrows /\ \E k : Moves(c, k) /\ k.pc # "answered"
<1>1. UNCHANGED <<tokens, up>> /\ commands[c].pc = "resolving" /\ Input(c).by = "address"
  BY DEF ResolveAddress, CommandAt
<1>2. CASE FailCommand(c) /\ UNCHANGED misread
  <2>1. Moves(c, [NoCommand EXCEPT !.pc = "failed"]) BY <1>1, <1>2, FailMoves
  <2>2. [NoCommand EXCEPT !.pc = "failed"].pc # "answered"
    BY NoCommandFacts DEF CommandRecords, NoCommand
  <2> QED BY <1>1, <1>2, <2>1, <2>2, TableStays
<1>3. CASE /\ Input(c).address \in DOMAIN tokens /\ Resolved(c, Input(c).address)
           /\ UNCHANGED misread
  <2>1. Means(Input(c), Input(c).address, SureSeeds) BY <1>1 DEF Means
  <2> QED BY <1>1, <1>3, <2>1, ResolvedMoves, TableStays
<1>4. CASE /\ CommandTo(c, "asking")
           /\ misread' = misread \cup ({Input(c).address} \cap DOMAIN Seeds)
  <2> DEFINE k == [commands[c] EXCEPT !.pc = "asking"]
  <2>1. commands[c] \in CommandRecords /\ CommandInv(commands[c], DOMAIN tokens, SureSeeds)
    BY DEF ResolutionInv, TokensTypeOK
  <2>2. /\ k \in CommandRecords /\ k.pc = "asking" /\ k.found = commands[c].found
        /\ k.inputs = commands[c].inputs /\ k.user = commands[c].user
    BY <2>1 DEF CommandRecords, CommandPc
  <2>3. Len(commands[c].found) \in {0, 1} /\ commands[c].inputs \in NamedPairs
    <3>1. Len(commands[c].found) < 2 /\ commands[c].inputs \in NamedPairs
      BY <1>1, <2>1 DEF CommandInv
    <3>2. commands[c].found \in Seq(Addresses) BY <2>1 DEF CommandRecords
    <3>3. PICK n \in Nat : n = Len(commands[c].found) BY <3>2
    <3>4. n < 2 BY <3>1, <3>3, Zenon
    <3>5. n \in {0, 1} BY <3>4
    <3> QED BY <3>1, <3>3, <3>5, Zenon
  <2>4. Input(c) \in AddressInputs
    <3>1. PICK n \in {0, 1} : n = Len(commands[c].found) BY <2>3
    <3>2. Input(c) \in {pair[i] : pair \in NamedPairs, i \in {1, 2}}
      <4>1. n + 1 \in {1, 2} OBVIOUS
      <4>2. Input(c) = commands[c].inputs[n + 1] BY <3>1, Zenon DEF Input
      <4> QED BY <2>3, <4>1, <4>2
    <3> QED BY <1>1, <3>2 DEF AddressInputs
  <2>5. ReportedAddresses(Input(c)) \cap SureSeeds' = {}
    <3>1. Input(c).address \notin SureSeeds' BY <1>4 DEF SureSeeds
    <3>2. CatalogueAddress(Input(c)) \notin SureSeeds'
      BY <2>4, <3>1, SpellingAssumption DEF SureSeeds
    <3> QED BY <3>1, <3>2 DEF ReportedAddresses
  <2>6. commands' = [commands EXCEPT ![c] = k] BY <1>4 DEF CommandTo
  <2> HIDE DEF k
  <2>7. /\ misread \subseteq misread' /\ misread' \subseteq DOMAIN Seeds
        /\ SureSeeds' \subseteq SureSeeds
    BY <1>4 DEF SureSeeds, ResolutionInv, TokensTypeOK
  <2>8. CommandInv(commands[c], DOMAIN tokens', SureSeeds') BY <1>1, <2>1, <2>7, CommandKept
  <2>9. CommandInv(k, DOMAIN tokens', SureSeeds')
    BY <1>1, <2>2, <2>4, <2>5, <2>8 DEF CommandInv, Input
  <2>10. TableGrows
    BY <1>1, <2>7 DEF TableGrows, ResolutionInv, TokensTypeOK, TableInv
  <2> QED BY <1>1, <2>2, <2>6, <2>9, <2>10 DEF Moves
<1> QED BY <1>1, <1>2, <1>3, <1>4 DEF ResolveAddress

LEMMA CoinGeckoAnswersMoves ==
    ASSUME ResolutionInv, NEW c \in Commands, CommandAt(c, "asking"),
           NEW address \in ReportedAddresses(Input(c)),
           NEW symbol \in Listed[Input(c).address[1]], CoinGeckoAnswers(c, address, symbol)
    PROVE  TableGrows /\ \E k : Moves(c, k) /\ k.pc # "answered"
<1> DEFINE report == <<address, symbol>>
           k == [commands[c] EXCEPT !.pc = "saving", !.report = report]
<1>1. UNCHANGED <<tokens, up, misread>> /\ commands[c].pc = "asking"
  BY DEF CoinGeckoAnswers, CommandAt
<1>2. commands[c] \in CommandRecords /\ CommandInv(commands[c], DOMAIN tokens, SureSeeds)
  BY DEF ResolutionInv, TokensTypeOK
<1>3. Input(c) \in AddressInputs /\ ReportedAddresses(Input(c)) \cap SureSeeds = {}
  BY <1>1, <1>2 DEF CommandInv, Input
<1>4. address \in Addresses BY <1>3 DEF ReportedAddresses, Addresses
<1>5. symbol \in Symbols BY <1>3 DEF Symbols
<1>6. report \in Addresses \X Symbols /\ report[1] \in ReportedAddresses(Input(c)) BY <1>4, <1>5
<1>7. commands' = [commands EXCEPT ![c] = k] BY DEF CoinGeckoAnswers
<1> HIDE DEF report
<1>8. /\ k \in CommandRecords /\ k.pc = "saving" /\ k.found = commands[c].found
      /\ k.inputs = commands[c].inputs /\ k.user = commands[c].user /\ k.report = report
  BY <1>2, <1>6 DEF CommandRecords, CommandPc
<1> HIDE DEF k
<1>9. CommandInv(k, DOMAIN tokens, SureSeeds)
  BY <1>1, <1>2, <1>3, <1>6, <1>8 DEF CommandInv, Input
<1> QED BY <1>1, <1>7, <1>8, <1>9, TableStays DEF Moves

LEMMA ResolutionFailsMoves ==
    ASSUME ResolutionInv, NEW c \in Commands, ResolutionFails(c)
    PROVE  TableGrows /\ \E k : Moves(c, k) /\ k.pc # "answered"
<1>1. UNCHANGED <<tokens, up, misread>> /\ commands[c].pc # "answered" /\ FailCommand(c)
  BY DEF ResolutionFails, CommandAt
<1>2. Moves(c, [NoCommand EXCEPT !.pc = "failed"]) BY <1>1, FailMoves
<1>3. [NoCommand EXCEPT !.pc = "failed"].pc # "answered"
  BY NoCommandFacts DEF CommandRecords, NoCommand
<1> QED BY <1>1, <1>2, <1>3, TableStays

\* What is written is no sure seed, under a symbol that no other row has.
LEMMA UpsertTokenMoves ==
    ASSUME ResolutionInv, NEW c \in Commands, UpsertToken(c)
    PROVE  TableGrows /\ \E k : Moves(c, k) /\ k.pc # "answered"
<1> DEFINE address == commands[c].report[1]
           symbol == commands[c].report[2]
           k == [commands[c] EXCEPT !.pc = "saved"]
<1>1. commands[c].pc = "saving" /\ UNCHANGED <<up, misread>> BY DEF UpsertToken, CommandAt
<1>2. commands[c] \in CommandRecords /\ CommandInv(commands[c], DOMAIN tokens, SureSeeds)
  BY DEF ResolutionInv, TokensTypeOK
<1>3. /\ address \in Addresses /\ symbol \in Symbols /\ address \notin SureSeeds
  BY <1>1, <1>2 DEF CommandInv
<1>4. CASE FailCommand(c) /\ tokens' = tokens
  <2>1. Moves(c, [NoCommand EXCEPT !.pc = "failed"]) BY <1>1, <1>4, FailMoves
  <2>2. [NoCommand EXCEPT !.pc = "failed"].pc # "answered"
    BY NoCommandFacts DEF CommandRecords, NoCommand
  <2> QED BY <1>1, <1>4, <2>1, <2>2, TableStays
<1>5. CASE ~SymbolTaken(address, symbol) /\ Upsert(address, symbol) /\ CommandTo(c, "saved")
  <2>1. commands' = [commands EXCEPT ![c] = k] BY <1>5 DEF CommandTo
  <2>2. /\ k \in CommandRecords /\ k.pc = "saved" /\ k.found = commands[c].found
        /\ k.inputs = commands[c].inputs /\ k.user = commands[c].user
        /\ k.report = commands[c].report
    BY <1>2 DEF CommandRecords, CommandPc
  <2> HIDE DEF k, address, symbol
  <2>3. /\ DOMAIN tokens' = DOMAIN tokens \cup {address}
        /\ \A a \in DOMAIN tokens' : tokens'[a] = IF a = address THEN symbol ELSE tokens[a]
        /\ tokens' = [a \in DOMAIN tokens \cup {address} |-> tokens'[a]]
    BY <1>5 DEF Upsert
  <2>4. \A a \in DOMAIN tokens \ {address} : tokens[a] # symbol
    BY <1>5 DEF SymbolTaken, FindBySymbol
  <2>5. /\ DOMAIN tokens \subseteq Addresses /\ \A a \in DOMAIN tokens : tokens[a] \in Symbols
    BY DEF ResolutionInv, TokensTypeOK
  <2>6. TableInv'
    <3>1. /\ DOMAIN Seeds \subseteq DOMAIN tokens'
          /\ \A a \in SureSeeds' : tokens'[a] = Seeds[a]
      BY <1>1, <1>3, <2>3 DEF ResolutionInv, TableInv, SureSeeds
    <3>2. \A a, b \in DOMAIN tokens' : tokens'[a] = tokens'[b] => a = b
      BY <2>3, <2>4 DEF ResolutionInv, TableInv
    <3> QED BY <3>1, <3>2 DEF TableInv
  <2>7. DOMAIN tokens' \subseteq Addresses /\ tokens' \in [DOMAIN tokens' -> Symbols]
    BY <1>3, <2>3, <2>5
  <2>8. TableGrows
    BY <1>1, <2>3, <2>6, <2>7 DEF TableGrows, ResolutionInv, TokensTypeOK
  <2>9. CommandInv(k, DOMAIN tokens', SureSeeds')
    <3>1. DOMAIN tokens \subseteq DOMAIN tokens' /\ SureSeeds' \subseteq SureSeeds
      BY <1>1, <2>3 DEF SureSeeds
    <3>2. CommandInv(commands[c], DOMAIN tokens', SureSeeds') BY <1>2, <3>1, CommandKept
    <3> QED BY <1>1, <2>2, <3>2 DEF CommandInv
  <2> QED BY <1>1, <2>1, <2>2, <2>8, <2>9 DEF Moves
<1> QED BY <1>4, <1>5 DEF UpsertToken

LEMMA ReadSavedTokenMoves ==
    ASSUME ResolutionInv, NEW c \in Commands, ReadSavedToken(c)
    PROVE  TableGrows /\ \E k : Moves(c, k) /\ k.pc # "answered"
<1>1. UNCHANGED <<tokens, up, misread>> /\ commands[c].pc = "saved"
  BY DEF ReadSavedToken, CommandAt
<1>2. CASE FailCommand(c)
  <2>1. Moves(c, [NoCommand EXCEPT !.pc = "failed"]) BY <1>1, <1>2, FailMoves
  <2>2. [NoCommand EXCEPT !.pc = "failed"].pc # "answered"
    BY NoCommandFacts DEF CommandRecords, NoCommand
  <2> QED BY <1>1, <2>1, <2>2, TableStays
<1>3. CASE commands[c].report[1] \in DOMAIN tokens /\ Resolved(c, commands[c].report[1])
  <2>1. CommandInv(commands[c], DOMAIN tokens, SureSeeds) BY DEF ResolutionInv
  <2>2. Input(c) \in AddressInputs /\ commands[c].report[1] \in ReportedAddresses(Input(c))
    BY <1>1, <2>1 DEF CommandInv, Input
  <2>3. Means(Input(c), commands[c].report[1], SureSeeds)
    BY <2>2 DEF Means, AddressInputs, ReportedAddresses, CatalogueAddress
  <2> QED BY <1>1, <1>3, <2>3, ResolvedMoves, TableStays
<1> QED BY <1>2, <1>3 DEF ReadSavedToken

LEMMA ResolutionStepMoves ==
    ASSUME ResolutionInv, NEW c \in Commands, ResolutionStep(c)
    PROVE  TableGrows /\ \E k : Moves(c, k) /\ k.pc # "answered"
<1>1. ASSUME NEW u \in Traders, NEW pair \in NamedPairs, NEW explicitChain \in BOOLEAN,
             HandleCommand(c, u, pair, explicitChain)
      PROVE  TableGrows /\ \E k : Moves(c, k) /\ k.pc # "answered"
  BY <1>1, HandleCommandMoves
<1>2. ASSUME CommandAt(c, "asking"), NEW address \in ReportedAddresses(Input(c)),
             NEW symbol \in Listed[Input(c).address[1]], CoinGeckoAnswers(c, address, symbol)
      PROVE  TableGrows /\ \E k : Moves(c, k) /\ k.pc # "answered"
  BY <1>2, CoinGeckoAnswersMoves
<1> QED
  BY <1>1, <1>2, ResolveSymbolMoves, ResolveAddressMoves, ResolutionFailsMoves,
     UpsertTokenMoves, ReadSavedTokenMoves
  DEF ResolutionStep

-----------------------------------------------------------------------------
(* What the step of a command means for the table and the other commands.  *)

LEMMA ResolutionKept ==
    ASSUME ResolutionInv, TableGrows, NEW c \in Commands, NEW k, Moves(c, k)
    PROVE  /\ ResolutionInv'
           /\ \A x \in Commands : commands[x].pc = "answered" => commands'[x] = commands[x]
           /\ commands'[c] = k
<1>1. commands \in [Commands -> CommandRecords] BY DEF ResolutionInv, TokensTypeOK
<1>2. \A x \in Commands : commands'[x] = IF x = c THEN k ELSE commands[x]
  BY <1>1 DEF Moves
<1>3. \A x \in Commands : CommandInv(commands'[x], DOMAIN tokens', SureSeeds')
  <2> TAKE x \in Commands
  <2>1. CASE x = c BY <1>2, <2>1 DEF Moves
  <2>2. CASE x # c
    <3>1. commands'[x] = commands[x] BY <1>2, <2>2
    <3>2. CommandInv(commands[x], DOMAIN tokens, SureSeeds) BY DEF ResolutionInv
    <3>3. DOMAIN tokens \subseteq DOMAIN tokens' /\ SureSeeds' \subseteq SureSeeds
      BY DEF TableGrows, SureSeeds
    <3>4. CommandInv(commands[x], DOMAIN tokens', SureSeeds') BY <3>2, <3>3, CommandKept
    <3> QED BY <3>1, <3>4
  <2> QED BY <2>1, <2>2
<1>4. commands' \in [Commands -> CommandRecords] BY <1>1 DEF Moves
<1>5. ResolutionInv' BY <1>3, <1>4 DEF ResolutionInv, TokensTypeOK, TableGrows
<1> QED BY <1>2, <1>5 DEF Moves

\* ButtonIsSpent, of the buttons, taps and commands given.
Spent(kind, pcs, rows, bs, ts, cs) ==
    /\ \A t \in Taps : ts[t].pc \in pcs =>
          /\ [kind |-> kind, command |-> ts[t].by] \notin bs
          /\ \A x \in DOMAIN rows : rows[x].by # ts[t].by
          /\ \A s \in Taps : ts[s].pc \in pcs /\ ts[s].by = ts[t].by => s = t
    /\ \A x \in DOMAIN rows :
          /\ rows[x].by \in Commands /\ cs[rows[x].by].pc = "answered"
          /\ rows[x].user = cs[rows[x].by].user /\ rows[x].pair = cs[rows[x].by].found
          /\ [kind |-> kind, command |-> rows[x].by] \notin bs
          /\ \A y \in DOMAIN rows : rows[x].by = rows[y].by => x = y

LEMMA SpentIsSpent ==
    /\ ButtonIsSpent("preset", Saving, presets)
          <=> Spent("preset", Saving, presets, buttons, taps, commands)
    /\ ButtonIsSpent("favorite", Favoring, favorites)
          <=> Spent("favorite", Favoring, favorites, buttons, taps, commands)
    /\ ButtonIsSpent("preset", Saving, presets)'
          <=> Spent("preset", Saving, presets', buttons', taps', commands')
    /\ ButtonIsSpent("favorite", Favoring, favorites)'
          <=> Spent("favorite", Favoring, favorites', buttons', taps', commands')
BY Zenon DEF ButtonIsSpent, Spent, OfItsAnswer, Answered

AnswersStay == \A x \in Commands : commands[x].pc = "answered" => commands'[x] = commands[x]

\* Nothing but a command, the buttons it gets with its answer, or those that are
\* gone.
LEMMA SpentKept ==
    ASSUME NEW kind, NEW pcs, NEW rows, NEW fewer, NEW bs, NEW more, NEW ts, NEW now,
           Spent(kind, pcs, rows, bs, ts, commands), AnswersStay,
           \* rows and taps at work may be fewer, and are what they were
           \A x \in DOMAIN fewer : x \in DOMAIN rows /\ fewer[x] = rows[x],
           \A t \in Taps : now[t].pc \in pcs => ts[t].pc \in pcs /\ now[t].by = ts[t].by,
           \A t \in Taps : ts[t].pc \in pcs => Answered(ts[t].by),
           \A b \in more \ bs : commands[b.command].pc # "answered"
    PROVE  Spent(kind, pcs, fewer, more, now, commands')
<1>1. \A t \in Taps : now[t].pc \in pcs =>
          /\ [kind |-> kind, command |-> now[t].by] \notin more
          /\ \A x \in DOMAIN fewer : fewer[x].by # now[t].by
          /\ \A s \in Taps : now[s].pc \in pcs /\ now[s].by = now[t].by => s = t
  <2> SUFFICES ASSUME NEW t \in Taps, now[t].pc \in pcs
               PROVE  /\ [kind |-> kind, command |-> now[t].by] \notin more
                      /\ \A x \in DOMAIN fewer : fewer[x].by # now[t].by
                      /\ \A s \in Taps : now[s].pc \in pcs /\ now[s].by = now[t].by => s = t
    OBVIOUS
  <2>1. ts[t].pc \in pcs /\ now[t].by = ts[t].by /\ Answered(ts[t].by) OBVIOUS
  <2>2. /\ [kind |-> kind, command |-> ts[t].by] \notin bs
        /\ \A x \in DOMAIN rows : rows[x].by # ts[t].by
        /\ \A s \in Taps : ts[s].pc \in pcs /\ ts[s].by = ts[t].by => s = t
    BY <2>1 DEF Spent
  <2> DEFINE b == [kind |-> kind, command |-> ts[t].by]
  <2>3. commands[b.command].pc = "answered" BY <2>1 DEF Answered
  <2>4. b \notin more BY <2>2, <2>3
  <2> QED BY <2>1, <2>2, <2>4
<1>2. \A x \in DOMAIN fewer :
          /\ fewer[x].by \in Commands /\ commands'[fewer[x].by].pc = "answered"
          /\ fewer[x].user = commands'[fewer[x].by].user
          /\ fewer[x].pair = commands'[fewer[x].by].found
          /\ [kind |-> kind, command |-> fewer[x].by] \notin more
          /\ \A y \in DOMAIN fewer : fewer[x].by = fewer[y].by => x = y
  <2> TAKE x \in DOMAIN fewer
  <2>1. x \in DOMAIN rows /\ fewer[x] = rows[x] OBVIOUS
  <2>2. /\ rows[x].by \in Commands /\ commands[rows[x].by].pc = "answered"
        /\ rows[x].user = commands[rows[x].by].user /\ rows[x].pair = commands[rows[x].by].found
        /\ [kind |-> kind, command |-> rows[x].by] \notin bs
        /\ \A y \in DOMAIN rows : rows[x].by = rows[y].by => x = y
    BY <2>1 DEF Spent
  <2>3. commands'[rows[x].by] = commands[rows[x].by] BY <2>2 DEF AnswersStay
  <2> DEFINE b == [kind |-> kind, command |-> rows[x].by]
  <2>4. commands[b.command].pc = "answered" BY <2>2
  <2>5. b \notin more BY <2>2, <2>4
  <2> QED BY <2>1, <2>2, <2>3, <2>5
<1> QED BY <1>1, <1>2 DEF Spent

\* The pieces of a step that keep all of it.
LEMMA PairsKept ==
    ASSUME PairsInv, ResolutionInv', AnswersStay, PairsTypeOK',
           \A b \in buttons' \ buttons : commands[b.command].pc # "answered" /\ Answered(b.command)',
           \A x \in DOMAIN presets' : x \in DOMAIN presets /\ presets'[x] = presets[x],
           \A x \in DOMAIN favorites' : x \in DOMAIN favorites /\ favorites'[x] = favorites[x],
           \A t \in Taps : taps'[t].pc \in Saving \cup Favoring =>
               /\ taps'[t].pc \in Saving <=> taps[t].pc \in Saving
               /\ taps'[t].pc \in Favoring <=> taps[t].pc \in Favoring
               /\ taps'[t].by = taps[t].by /\ taps'[t].user = taps[t].user
               /\ taps'[t].pair = taps[t].pair
               /\ taps'[t].pc = "naming" => Len(taps'[t].label) < 2
    PROVE  PairsInv'
<1>1. /\ Spent("preset", Saving, presets, buttons, taps, commands)
      /\ Spent("favorite", Favoring, favorites, buttons, taps, commands)
  BY SpentIsSpent DEF PairsInv
<1>2. \A t \in Taps : taps[t].pc \in Saving \cup Favoring => Answered(taps[t].by)
  BY DEF PairsInv, TapsInv, OfItsAnswer
<1>3. Spent("preset", Saving, presets', buttons', taps', commands')
  BY <1>1, <1>2, SpentKept
<1>4. Spent("favorite", Favoring, favorites', buttons', taps', commands')
  BY <1>1, <1>2, SpentKept
<1>5. TapsInv'
  <2> SUFFICES ASSUME NEW t \in Taps, taps'[t].pc \in Saving \cup Favoring
               PROVE  /\ OfItsAnswer(taps[t])'
                      /\ taps'[t].pc = "naming" => Len(taps'[t].label) < 2
    BY DEF TapsInv
  <2>1. taps[t].pc \in Saving \cup Favoring OBVIOUS
  <2>2. OfItsAnswer(taps[t]) BY <2>1 DEF PairsInv, TapsInv
  <2>3. commands'[taps[t].by] = commands[taps[t].by]
    BY <2>2 DEF OfItsAnswer, Answered, AnswersStay
  <2> QED BY <2>2, <2>3 DEF OfItsAnswer, Answered
<1>6. \A b \in buttons' : Answered(b.command)'
  <2> TAKE b \in buttons'
  <2>1. CASE b \in buttons
    <3>1. Answered(b.command) BY <2>1 DEF PairsInv
    <3> QED BY <3>1 DEF Answered, AnswersStay
  <2>2. CASE b \notin buttons BY <2>2
  <2> QED BY <2>1, <2>2
<1> QED BY <1>3, <1>4, <1>5, <1>6, SpentIsSpent DEF PairsInv

-----------------------------------------------------------------------------
(* The steps of the commands.                                              *)

LEMMA SameTaps ==
    ASSUME PairsInv, ResolutionInv', AnswersStay, UNCHANGED pairVars
    PROVE  PairsInv'
<1>1. PairsTypeOK' BY DEF PairsInv, PairsTypeOK, pairVars
<1>2. UNCHANGED <<buttons, taps, presets, favorites>> BY DEF pairVars
<1>3. \A t \in Taps : taps[t].pc = "naming" => Len(taps[t].label) < 2
  BY DEF PairsInv, TapsInv, Saving
<1> QED BY <1>1, <1>2, <1>3, PairsKept

LEMMA CommandStep ==
    ASSUME PairsInv, TableGrows, NEW c \in Commands, NEW k, Moves(c, k), UNCHANGED pairVars
    PROVE  PairsInv'
BY ResolutionKept, SameTaps DEF PairsInv, AnswersStay

LEMMA AnswerFailsStep ==
    ASSUME PairsInv, NEW c \in Commands, AnswerFails(c)
    PROVE  PairsInv'
<1>1. ResolutionInv /\ UNCHANGED <<tokens, up, misread, pairVars>> /\ FailCommand(c)
      /\ commands[c].pc # "answered"
  BY DEF PairsInv, AnswerFails, CommandAt
<1>2. TableGrows BY <1>1, TableStays
<1>3. Moves(c, [NoCommand EXCEPT !.pc = "failed"]) BY <1>1, FailMoves
<1> QED BY <1>1, <1>2, <1>3, CommandStep

\* The two buttons are of an answer that had none, nor a tap or a row.
LEMMA AnswerStep ==
    ASSUME PairsInv, NEW c \in Commands, Answer(c)
    PROVE  PairsInv'
<1> DEFINE k == [commands[c] EXCEPT !.pc = "answered"]
<1>1. ResolutionInv /\ UNCHANGED <<tokens, up, misread>> /\ commands[c].pc = "prepared"
      /\ UNCHANGED <<taps, presets, favorites, savedRestarts>>
  BY DEF PairsInv, Answer, CommandAt
<1>2. commands[c] \in CommandRecords /\ CommandInv(commands[c], DOMAIN tokens, SureSeeds)
  BY <1>1 DEF ResolutionInv, TokensTypeOK
<1>3. /\ k \in CommandRecords /\ k.pc = "answered" /\ k.found = commands[c].found
      /\ k.inputs = commands[c].inputs /\ k.user = commands[c].user
  BY <1>2 DEF CommandRecords, CommandPc
<1>4. commands' = [commands EXCEPT ![c] = k] BY DEF Answer, CommandTo
<1> HIDE DEF k
<1>5. CommandInv(k, DOMAIN tokens', SureSeeds') BY <1>1, <1>2, <1>3, TableStays DEF CommandInv
<1>6. Moves(c, k) BY <1>1, <1>3, <1>4, <1>5 DEF Moves
<1>7. ResolutionInv' /\ AnswersStay /\ commands'[c] = k
  BY <1>1, <1>6, TableStays, ResolutionKept DEF AnswersStay
<1>8. buttons' = buttons \cup {[kind |-> q, command |-> c] : q \in {"preset", "favorite"}}
  BY DEF Answer
<1>9. PairsTypeOK'
  <2>1. \A b \in buttons' : b = [kind |-> b.kind, command |-> b.command]
    BY <1>8 DEF PairsInv, PairsTypeOK
  <2> QED BY <1>1, <2>1 DEF PairsInv, PairsTypeOK
<1>10. \A b \in buttons' \ buttons :
          commands[b.command].pc # "answered" /\ Answered(b.command)'
  BY <1>1, <1>3, <1>7, <1>8 DEF Answered
<1>11. \A t \in Taps : taps[t].pc = "naming" => Len(taps[t].label) < 2
  BY DEF PairsInv, TapsInv, Saving
<1> QED BY <1>1, <1>7, <1>9, <1>10, <1>11, PairsKept

-----------------------------------------------------------------------------
(* The steps of a tap.                                                     *)

\* A tap that is at work goes on with what it has, or ends.
LEMMA TapMoves ==
    ASSUME PairsInv, NEW t \in Taps, NEW k \in TapRecords, taps' = [taps EXCEPT ![t] = k],
           \/ k.pc \in {"rejected", "saved"}
           \/ /\ k.by = taps[t].by /\ k.user = taps[t].user /\ k.pair = taps[t].pair
              /\ \/ k.pc \in Saving /\ taps[t].pc \in Saving
                 \/ k.pc \in Favoring /\ taps[t].pc \in Favoring
              /\ k.pc = "naming" => Len(k.label) < 2,
           UNCHANGED <<tokenVars, buttons, presets, favorites, savedRestarts>>
    PROVE  PairsInv'
<1>1. \A x \in Taps : taps'[x] = IF x = t THEN k ELSE taps[x]
  BY DEF PairsInv, PairsTypeOK
<1>2. ResolutionInv' /\ AnswersStay
  BY DEF PairsInv, ResolutionInv, TokensTypeOK, TableInv, SureSeeds, tokenVars, AnswersStay
<1>3. PairsTypeOK' BY DEF PairsInv, PairsTypeOK
<1>4. \A x \in Taps : taps'[x].pc \in Saving \cup Favoring =>
               /\ taps'[x].pc \in Saving <=> taps[x].pc \in Saving
               /\ taps'[x].pc \in Favoring <=> taps[x].pc \in Favoring
               /\ taps'[x].by = taps[x].by /\ taps'[x].user = taps[x].user
               /\ taps'[x].pair = taps[x].pair
               /\ taps'[x].pc = "naming" => Len(taps'[x].label) < 2
  <2> TAKE x \in Taps
  <2>1. CASE x = t BY <1>1, <2>1 DEF Saving, Favoring
  <2>2. CASE x # t
    <3>1. taps'[x] = taps[x] BY <1>1, <2>2
    <3>2. taps[x].pc = "naming" => Len(taps[x].label) < 2
      BY DEF PairsInv, TapsInv, Saving
    <3> QED BY <3>1, <3>2
  <2> QED BY <2>1, <2>2
<1> QED BY <1>2, <1>3, <1>4, PairsKept

LEMMA NoTapFacts ==
    ASSUME NEW pc \in {"idle", "rejected", "saved"}
    PROVE  /\ NoTap \in TapRecords
           /\ [NoTap EXCEPT !.pc = pc] \in TapRecords /\ [NoTap EXCEPT !.pc = pc].pc = pc
<1>1. NoTap \in TapRecords BY DEF NoTap, TapRecords
<1>2. ASSUME NEW n \in TapRecords
      PROVE  [n EXCEPT !.pc = pc] \in TapRecords /\ [n EXCEPT !.pc = pc].pc = pc
  BY DEF TapRecords
<1> QED BY <1>1, <1>2

LEMMA FinishStep ==
    ASSUME PairsInv, NEW t \in Taps, NEW pc \in {"rejected", "saved"}, Finish(t, pc),
           UNCHANGED <<tokenVars, buttons, presets, favorites, savedRestarts>>
    PROVE  PairsInv'
<1> DEFINE k == [NoTap EXCEPT !.pc = pc]
<1>1. k \in TapRecords /\ k.pc = pc BY NoTapFacts
<1>2. taps' = [taps EXCEPT ![t] = k] BY DEF Finish
<1> HIDE DEF k
<1> QED BY <1>1, <1>2, TapMoves

LEMMA TapToStep ==
    ASSUME PairsInv, NEW t \in Taps, NEW pc,
           \/ pc \in Saving \ {"naming"} /\ taps[t].pc \in Saving
           \/ pc \in Favoring /\ taps[t].pc \in Favoring,
           TapTo(t, pc), UNCHANGED <<tokenVars, buttons, presets, favorites, savedRestarts>>
    PROVE  PairsInv'
<1> DEFINE k == [taps[t] EXCEPT !.pc = pc]
<1>1. taps[t] \in TapRecords BY DEF PairsInv, PairsTypeOK
<1>2. /\ k \in TapRecords /\ k.pc = pc /\ k.by = taps[t].by /\ k.user = taps[t].user
      /\ k.pair = taps[t].pair
  BY <1>1 DEF TapRecords
<1>3. taps' = [taps EXCEPT ![t] = k] BY DEF TapTo
<1>4. pc # "naming" BY DEF Favoring
<1> HIDE DEF k
<1> QED BY <1>2, <1>3, <1>4, TapMoves

\* The two tokens of the pair are in the table and stay there.
LEMMA NamePresetStep ==
    ASSUME PairsInv, NEW t \in Taps, NamePreset(t)
    PROVE  PairsInv'
<1> DEFINE token == taps[t].pair[Len(taps[t].label) + 1]
           label == Append(taps[t].label, tokens[token])
           pc == IF Len(label) = 2 THEN "labelled" ELSE "naming"
           k == [taps[t] EXCEPT !.label = label, !.pc = pc]
<1>1. taps[t] \in TapRecords /\ taps[t].pc = "naming"
  BY DEF PairsInv, PairsTypeOK, NamePreset, TapAt
<1>2. OfItsAnswer(taps[t]) /\ Len(taps[t].label) < 2
  BY <1>1 DEF PairsInv, TapsInv, Saving
<1>3. PICK n \in Nat : n = Len(taps[t].label) /\ taps[t].label \in Seq(Symbols)
  BY <1>1 DEF TapRecords
<1>4. n < 2 BY <1>2, <1>3, Zenon
<1>5. token \in DOMAIN tokens
  <2>1. CommandInv(commands[taps[t].by], DOMAIN tokens, SureSeeds)
    BY <1>2 DEF PairsInv, ResolutionInv, OfItsAnswer, Answered
  <2>2. Len(taps[t].pair) = 2 /\ \A i \in DOMAIN taps[t].pair : taps[t].pair[i] \in DOMAIN tokens
    BY <1>2, <2>1 DEF OfItsAnswer, Answered, CommandInv
  <2>3. DOMAIN taps[t].pair = 1..2
    <3>1. taps[t].pair \in Seq(Addresses) BY <1>1 DEF TapRecords
    <3> QED BY <2>2, <3>1
  <2>4. n + 1 \in 1..2 BY <1>4
  <2>5. token = taps[t].pair[n + 1] BY <1>3, Zenon
  <2> QED BY <2>2, <2>3, <2>4, <2>5
<1>6. tokens[token] \in Symbols
  BY <1>5 DEF PairsInv, ResolutionInv, TokensTypeOK
<1>7. label \in Seq(Symbols) /\ Len(label) = n + 1 BY <1>3, <1>6
<1>8. pc \in Saving /\ (pc = "naming" => Len(label) < 2)
  <2>1. n # 1 => n + 1 < 2 BY <1>4
  <2>2. pc = "naming" => n # 1 BY <1>7
  <2>3. pc = "naming" => Len(label) < 2 BY <1>7, <2>1, <2>2
  <2> QED BY <2>3 DEF Saving
<1>9. taps' = [taps EXCEPT ![t] = k]
  <2>1. taps' = [taps EXCEPT ![t].label = label, ![t].pc = pc] BY DEF NamePreset
  <2> HIDE DEF label, pc
  <2>2. taps \in [Taps -> TapRecords] BY DEF PairsInv, PairsTypeOK
  <2> QED BY <2>1, <2>2
<1> HIDE DEF label, pc
<1>10. /\ k \in TapRecords /\ k.pc = pc /\ k.label = label /\ k.by = taps[t].by
       /\ k.user = taps[t].user /\ k.pair = taps[t].pair
  BY <1>1, <1>7, <1>8 DEF TapRecords
<1> HIDE DEF k
<1> QED BY <1>1, <1>8, <1>9, <1>10, TapMoves DEF NamePreset, Saving

\* The press that takes the button is the only one, and the pair is its answer's.
LEMMA TapPressStep ==
    ASSUME PairsInv, NEW t \in Taps, NEW u \in Traders, NEW kind \in {"preset", "favorite"},
           NEW c \in Commands, Tap(t, u, [kind |-> kind, command |-> c])
    PROVE  PairsInv'
<1> DEFINE b == [kind |-> kind, command |-> c]
<1>1. taps[t].pc = "idle" /\ commands[c].pc = "answered"
      /\ UNCHANGED <<tokenVars, presets, favorites, savedRestarts>>
  BY DEF Tap, TapAt, CommandAt
<1>2. CASE ~PendingActionFor(u, b)
  BY <1>1, <1>2, FinishStep DEF Tap
<1>3. CASE PendingActionFor(u, b)
  <2> DEFINE pc == IF kind = "preset" THEN "naming" ELSE "inserting"
  <2>1. PICK n \in TapRecords : n = NoTap /\ n.label = <<>>
    BY NoTapFacts DEF NoTap
  <2> DEFINE k == [n EXCEPT !.pc = pc, !.user = u, !.by = c, !.pair = commands[c].found]
  <2>2. buttons' = buttons \ {b} /\ b \in buttons /\ commands[c].user = u
    BY <1>3 DEF Tap, PendingActionFor
  <2>3. taps' = [taps EXCEPT ![t] = k] BY <1>3, <2>1 DEF Tap
  <2>4. commands[c] \in CommandRecords BY DEF PairsInv, ResolutionInv, TokensTypeOK
  <2>5. commands[c].found \in Seq(Addresses) BY <2>4 DEF CommandRecords
  <2>6. /\ pc \in Saving \cup Favoring /\ (pc \in Saving <=> kind = "preset")
        /\ (pc \in Favoring <=> kind = "favorite")
    BY DEF Saving, Favoring
  <2> HIDE DEF pc
  <2>7. /\ k \in TapRecords /\ k.pc = pc /\ k.by = c /\ k.user = u
        /\ k.pair = commands[c].found /\ k.label = <<>>
    BY <2>1, <2>5, <2>6 DEF TapRecords
  <2> HIDE DEF k
  <2>8. taps \in [Taps -> TapRecords] BY DEF PairsInv, PairsTypeOK
  <2>9. \A x \in Taps : taps'[x] = IF x = t THEN k ELSE taps[x] BY <2>3, <2>8
  <2>10. ResolutionInv'
    BY <1>1 DEF PairsInv, ResolutionInv, TokensTypeOK, TableInv, SureSeeds, tokenVars
  <2>11. PairsTypeOK' BY <1>1, <2>2, <2>3, <2>7, <2>8 DEF PairsInv, PairsTypeOK
  <2>12. TapsInv'
    <3> SUFFICES ASSUME NEW x \in Taps, taps'[x].pc \in Saving \cup Favoring
                 PROVE  /\ OfItsAnswer(taps[x])'
                        /\ taps'[x].pc = "naming" => Len(taps'[x].label) < 2
      BY DEF TapsInv
    <3>1. commands' = commands BY <1>1 DEF tokenVars
    <3>2. CASE x = t
      <4>1. taps'[x] = k BY <2>9, <3>2
      <4>2. Len(k.label) = 0 BY <2>7
      <4> QED BY <1>1, <2>2, <2>7, <3>1, <4>1, <4>2 DEF OfItsAnswer, Answered
    <3>3. CASE x # t
      <4>1. taps'[x] = taps[x] BY <2>9, <3>3
      <4>2. OfItsAnswer(taps[x]) /\ (taps[x].pc = "naming" => Len(taps[x].label) < 2)
        BY <4>1 DEF PairsInv, TapsInv
      <4> QED BY <3>1, <4>1, <4>2 DEF OfItsAnswer, Answered
    <3> QED BY <3>2, <3>3
  <2>13. \A x \in buttons' : Answered(x.command)'
    BY <1>1, <2>2 DEF PairsInv, Answered, tokenVars
  <2>14. commands' = commands /\ presets' = presets /\ favorites' = favorites
    BY <1>1 DEF tokenVars
  <2>15. ASSUME NEW q \in {"preset", "favorite"}, NEW pcs, NEW rows,
                Spent(q, pcs, rows, buttons, taps, commands), "idle" \notin pcs,
                pc \in pcs <=> kind = q
         PROVE  Spent(q, pcs, rows, buttons', taps', commands)
    <3>1. \A x \in DOMAIN rows :
              /\ rows[x].by \in Commands /\ commands[rows[x].by].pc = "answered"
              /\ rows[x].user = commands[rows[x].by].user
              /\ rows[x].pair = commands[rows[x].by].found
              /\ [kind |-> q, command |-> rows[x].by] \notin buttons'
              /\ \A y \in DOMAIN rows : rows[x].by = rows[y].by => x = y
      BY <2>2, <2>15 DEF Spent
    <3>2. kind = q => b = [kind |-> q, command |-> c] OBVIOUS
    <3>3. kind = q => /\ \A x \in DOMAIN rows : rows[x].by # c
                      /\ \A s \in Taps : taps[s].pc \in pcs => taps[s].by # c
      BY <2>2, <2>15, <3>2 DEF Spent
    <3>4. \A s \in Taps : taps'[s].pc \in pcs =>
              /\ [kind |-> q, command |-> taps'[s].by] \notin buttons'
              /\ \A x \in DOMAIN rows : rows[x].by # taps'[s].by
              /\ \A r \in Taps : taps'[r].pc \in pcs /\ taps'[r].by = taps'[s].by => r = s
      <4> SUFFICES ASSUME NEW s \in Taps, taps'[s].pc \in pcs
                   PROVE  /\ [kind |-> q, command |-> taps'[s].by] \notin buttons'
                          /\ \A x \in DOMAIN rows : rows[x].by # taps'[s].by
                          /\ \A r \in Taps : taps'[r].pc \in pcs /\ taps'[r].by = taps'[s].by
                                => r = s
        OBVIOUS
      <4>1. CASE s = t
        <5>1. taps'[s] = k /\ kind = q BY <2>7, <2>9, <2>15, <4>1
        <5>2. [kind |-> q, command |-> c] \notin buttons' BY <2>2, <5>1
        <5> QED BY <2>7, <2>9, <3>3, <4>1, <5>1, <5>2
      <4>2. CASE s # t
        <5>1. taps'[s] = taps[s] BY <2>9, <4>2
        <5>2. /\ [kind |-> q, command |-> taps[s].by] \notin buttons
              /\ \A x \in DOMAIN rows : rows[x].by # taps[s].by
              /\ \A r \in Taps : taps[r].pc \in pcs /\ taps[r].by = taps[s].by => r = s
          BY <2>15, <5>1 DEF Spent
        <5>3. taps'[t].pc \in pcs => taps[s].by # c BY <2>7, <2>9, <2>15, <3>3, <5>1
        <5>4. taps'[t].by = c BY <2>7, <2>9
        <5> QED BY <2>2, <2>9, <5>1, <5>2, <5>3, <5>4
      <4> QED BY <4>1, <4>2
    <3> QED BY <3>1, <3>4 DEF Spent
  <2>16. /\ Spent("preset", Saving, presets, buttons, taps, commands)
         /\ Spent("favorite", Favoring, favorites, buttons, taps, commands)
    BY SpentIsSpent DEF PairsInv
  <2>17. Spent("preset", Saving, presets, buttons', taps', commands)
    <3>1. "idle" \notin Saving BY DEF Saving
    <3> QED BY <2>6, <2>15, <2>16, <3>1
  <2>18. Spent("favorite", Favoring, favorites, buttons', taps', commands)
    <3>1. "idle" \notin Favoring BY DEF Favoring
    <3> QED BY <2>6, <2>15, <2>16, <3>1
  <2> QED BY <2>10, <2>11, <2>12, <2>13, <2>14, <2>17, <2>18, SpentIsSpent DEF PairsInv
<1> QED BY <1>2, <1>3

\* A tap ends with a row of its own: its button is gone, and no other tap has it.
LEMMA RowMade ==
    ASSUME NEW kind, NEW pcs, NEW rows, NEW t \in Taps, NEW row, NEW now,
           Spent(kind, pcs, rows, buttons, taps, commands),
           taps[t].pc \in pcs, OfItsAnswer(taps[t]),
           row.by = taps[t].by, row.user = taps[t].user, row.pair = taps[t].pair,
           now[t].pc \notin pcs, \A x \in Taps \ {t} : now[x] = taps[x]
    PROVE  Spent(kind, pcs, With(rows, t, row), buttons, now, commands)
<1> DEFINE made == With(rows, t, row)
<1>1. /\ DOMAIN made = DOMAIN rows \cup {t}
      /\ \A x \in DOMAIN made : made[x] = IF x = t THEN row ELSE rows[x]
  BY DEF With
<1> HIDE DEF made
<1>2. /\ [kind |-> kind, command |-> taps[t].by] \notin buttons
      /\ \A x \in DOMAIN rows : rows[x].by # taps[t].by
      /\ \A s \in Taps : taps[s].pc \in pcs /\ taps[s].by = taps[t].by => s = t
  BY DEF Spent
<1>3. \A s \in Taps : now[s].pc \in pcs =>
          /\ [kind |-> kind, command |-> now[s].by] \notin buttons
          /\ \A x \in DOMAIN made : made[x].by # now[s].by
          /\ \A r \in Taps : now[r].pc \in pcs /\ now[r].by = now[s].by => r = s
  <2> SUFFICES ASSUME NEW s \in Taps, now[s].pc \in pcs
               PROVE  /\ [kind |-> kind, command |-> now[s].by] \notin buttons
                      /\ \A x \in DOMAIN made : made[x].by # now[s].by
                      /\ \A r \in Taps : now[r].pc \in pcs /\ now[r].by = now[s].by => r = s
    OBVIOUS
  <2>1. s # t /\ now[s] = taps[s] OBVIOUS
  <2>2. /\ [kind |-> kind, command |-> taps[s].by] \notin buttons
        /\ \A x \in DOMAIN rows : rows[x].by # taps[s].by
        /\ \A r \in Taps : taps[r].pc \in pcs /\ taps[r].by = taps[s].by => r = s
    BY <2>1 DEF Spent
  <2>3. row.by # taps[s].by BY <1>2, <2>1
  <2> QED BY <1>1, <2>1, <2>2, <2>3
<1>4. \A x \in DOMAIN made :
          /\ made[x].by \in Commands /\ commands[made[x].by].pc = "answered"
          /\ made[x].user = commands[made[x].by].user
          /\ made[x].pair = commands[made[x].by].found
          /\ [kind |-> kind, command |-> made[x].by] \notin buttons
          /\ \A y \in DOMAIN made : made[x].by = made[y].by => x = y
  <2> TAKE x \in DOMAIN made
  <2>1. \A y \in DOMAIN rows :
            /\ rows[y].by \in Commands /\ commands[rows[y].by].pc = "answered"
            /\ rows[y].user = commands[rows[y].by].user
            /\ rows[y].pair = commands[rows[y].by].found
            /\ [kind |-> kind, command |-> rows[y].by] \notin buttons
            /\ \A z \in DOMAIN rows : rows[y].by = rows[z].by => y = z
    BY DEF Spent
  <2>2. CASE x = t
    <3>1. made[x] = row BY <1>1, <2>2
    <3>2. \A y \in DOMAIN made : made[y].by = row.by => y = t BY <1>1, <1>2
    <3> QED BY <1>2, <2>2, <3>1, <3>2 DEF OfItsAnswer, Answered
  <2>3. CASE x # t
    <3>1. x \in DOMAIN rows /\ made[x] = rows[x] BY <1>1, <2>3
    <3>2. \A y \in DOMAIN made : made[y].by = rows[x].by => x = y
      <4> TAKE y \in DOMAIN made
      <4>1. CASE y = t BY <1>1, <1>2, <3>1, <4>1
      <4>2. CASE y # t
        <5>1. y \in DOMAIN rows /\ made[y] = rows[y] BY <1>1, <4>2
        <5> QED BY <2>1, <3>1, <5>1
      <4> QED BY <4>1, <4>2
    <3> QED BY <2>1, <3>1, <3>2
  <2> QED BY <2>2, <2>3
<1> QED BY <1>3, <1>4 DEF Spent, made

\* All but the rows, when a tap ends.
LEMMA TapEnds ==
    ASSUME PairsInv, NEW t \in Taps, Finish(t, "saved"), UNCHANGED <<tokenVars, buttons>>
    PROVE  /\ ResolutionInv' /\ TapsInv' /\ AnswersStay
           /\ \A b \in buttons' : Answered(b.command)'
           /\ taps' \in [Taps -> TapRecords] /\ taps'[t].pc = "saved"
           /\ \A x \in Taps \ {t} : taps'[x] = taps[x]
<1> DEFINE k == [NoTap EXCEPT !.pc = "saved"]
<1>1. k \in TapRecords /\ k.pc = "saved" BY NoTapFacts
<1>2. taps' = [taps EXCEPT ![t] = k] /\ taps \in [Taps -> TapRecords]
  BY DEF Finish, PairsInv, PairsTypeOK
<1> HIDE DEF k
<1>3. taps'[t] = k /\ \A x \in Taps \ {t} : taps'[x] = taps[x] BY <1>2
<1>4. taps' \in [Taps -> TapRecords] BY <1>1, <1>2
<1>5. ResolutionInv'
  BY DEF PairsInv, ResolutionInv, TokensTypeOK, TableInv, SureSeeds, tokenVars
<1>6. TapsInv'
  <2> SUFFICES ASSUME NEW x \in Taps, taps'[x].pc \in Saving \cup Favoring
               PROVE  /\ OfItsAnswer(taps[x])'
                      /\ taps'[x].pc = "naming" => Len(taps'[x].label) < 2
    BY DEF TapsInv
  <2>1. x # t BY <1>1, <1>3 DEF Saving, Favoring
  <2>2. taps'[x] = taps[x] BY <1>3, <2>1
  <2>3. OfItsAnswer(taps[x]) /\ (taps[x].pc = "naming" => Len(taps[x].label) < 2)
    BY <2>2 DEF PairsInv, TapsInv
  <2> QED BY <2>2, <2>3 DEF OfItsAnswer, Answered, tokenVars
<1>7. AnswersStay BY DEF AnswersStay, tokenVars
<1>8. \A b \in buttons' : Answered(b.command)' BY DEF PairsInv, Answered, tokenVars
<1> QED BY <1>1, <1>3, <1>4, <1>5, <1>6, <1>7, <1>8

LEMMA CreatePresetStep ==
    ASSUME PairsInv, NEW t \in Taps, CreatePreset(t)
    PROVE  PairsInv'
<1> DEFINE row == [user |-> taps[t].user, by |-> taps[t].by, pair |-> taps[t].pair,
                   label |-> taps[t].label]
<1>1. taps[t].pc = "creating" /\ presets' = With(presets, t, row) /\ Finish(t, "saved")
      /\ UNCHANGED <<tokenVars, buttons, favorites, savedRestarts>>
  BY DEF CreatePreset, TapAt
<1>2. /\ ResolutionInv' /\ TapsInv' /\ AnswersStay
      /\ \A b \in buttons' : Answered(b.command)'
      /\ taps' \in [Taps -> TapRecords] /\ taps'[t].pc = "saved"
      /\ \A x \in Taps \ {t} : taps'[x] = taps[x]
  BY <1>1, TapEnds
<1>3. taps[t].pc \in Saving /\ OfItsAnswer(taps[t])
  BY <1>1 DEF Saving, PairsInv, TapsInv
<1>4. /\ Spent("preset", Saving, presets, buttons, taps, commands)
      /\ Spent("favorite", Favoring, favorites, buttons, taps, commands)
  BY SpentIsSpent DEF PairsInv
<1>5. row.by = taps[t].by /\ row.user = taps[t].user /\ row.pair = taps[t].pair OBVIOUS
<1> HIDE DEF row
<1>6. Spent("preset", Saving, presets', buttons', taps', commands')
  <2>1. taps'[t].pc \notin Saving BY <1>2 DEF Saving
  <2>2. Spent("preset", Saving, With(presets, t, row), buttons, taps', commands)
    BY <1>2, <1>3, <1>4, <1>5, <2>1, RowMade
  <2> QED BY <1>1, <2>2 DEF tokenVars
<1>7. Spent("favorite", Favoring, favorites', buttons', taps', commands')
  <2>1. \A x \in Taps : taps'[x].pc \in Favoring =>
            taps[x].pc \in Favoring /\ taps'[x].by = taps[x].by
    BY <1>2 DEF Favoring
  <2>2. \A x \in Taps : taps[x].pc \in Favoring => Answered(taps[x].by)
    BY DEF PairsInv, TapsInv, OfItsAnswer
  <2> QED BY <1>1, <1>2, <1>4, <2>1, <2>2, SpentKept
<1>8. PairsTypeOK'
  <2>1. DOMAIN presets' \subseteq Taps BY <1>1 DEF With, PairsInv, PairsTypeOK
  <2> QED BY <1>1, <1>2, <2>1 DEF PairsInv, PairsTypeOK
<1> QED BY <1>2, <1>6, <1>7, <1>8, SpentIsSpent DEF PairsInv

LEMMA CreateFavoriteStep ==
    ASSUME PairsInv, NEW t \in Taps, CreateFavorite(t)
    PROVE  PairsInv'
<1> DEFINE row == [user |-> taps[t].user, by |-> taps[t].by, pair |-> taps[t].pair]
<1>1. taps[t].pc = "inserting" /\ UNCHANGED <<tokenVars, buttons, presets, savedRestarts>>
  BY DEF CreateFavorite, TapAt
<1>2. CASE favorites' = With(favorites, t, row) /\ Finish(t, "saved")
  <2>1. /\ ResolutionInv' /\ TapsInv' /\ AnswersStay
        /\ \A b \in buttons' : Answered(b.command)'
        /\ taps' \in [Taps -> TapRecords] /\ taps'[t].pc = "saved"
        /\ \A x \in Taps \ {t} : taps'[x] = taps[x]
    BY <1>1, <1>2, TapEnds
  <2>2. taps[t].pc \in Favoring /\ OfItsAnswer(taps[t])
    BY <1>1 DEF Favoring, PairsInv, TapsInv
  <2>3. /\ Spent("preset", Saving, presets, buttons, taps, commands)
        /\ Spent("favorite", Favoring, favorites, buttons, taps, commands)
    BY SpentIsSpent DEF PairsInv
  <2>4. row.by = taps[t].by /\ row.user = taps[t].user /\ row.pair = taps[t].pair OBVIOUS
  <2> HIDE DEF row
  <2>5. Spent("favorite", Favoring, favorites', buttons', taps', commands')
    <3>1. taps'[t].pc \notin Favoring BY <2>1 DEF Favoring
    <3>2. Spent("favorite", Favoring, With(favorites, t, row), buttons, taps', commands)
      BY <2>1, <2>2, <2>3, <2>4, <3>1, RowMade
    <3> QED BY <1>1, <1>2, <3>2 DEF tokenVars
  <2>6. Spent("preset", Saving, presets', buttons', taps', commands')
    <3>1. \A x \in Taps : taps'[x].pc \in Saving =>
              taps[x].pc \in Saving /\ taps'[x].by = taps[x].by
      BY <2>1 DEF Saving
    <3>2. \A x \in Taps : taps[x].pc \in Saving => Answered(taps[x].by)
      BY DEF PairsInv, TapsInv, OfItsAnswer
    <3> QED BY <1>1, <2>1, <2>3, <3>1, <3>2, SpentKept
  <2>7. PairsTypeOK'
    <3>1. DOMAIN favorites' \subseteq Taps BY <1>2 DEF With, PairsInv, PairsTypeOK
    <3> QED BY <1>1, <2>1, <3>1 DEF PairsInv, PairsTypeOK
  <2> QED BY <2>1, <2>5, <2>6, <2>7, SpentIsSpent DEF PairsInv
<1>3. CASE TapTo(t, "looking") /\ UNCHANGED favorites
  <2>1. taps[t].pc \in Favoring /\ "looking" \in Favoring BY <1>1 DEF Favoring
  <2> QED BY <1>1, <1>3, <2>1, TapToStep
<1> QED BY <1>2, <1>3 DEF CreateFavorite

LEMMA TapStepInv ==
    ASSUME PairsInv, NEW t \in Taps, TapStep(t)
    PROVE  PairsInv'
<1>1. ASSUME NEW u \in Traders, NEW k \in {"preset", "favorite"}, NEW c \in Commands,
             Tap(t, u, [kind |-> k, command |-> c])
      PROVE  PairsInv'
  BY <1>1, TapPressStep
<1>2. ASSUME NamePreset(t) PROVE PairsInv' BY <1>2, NamePresetStep
<1>3. ASSUME FindByLabel(t) PROVE PairsInv'
  <2>1. taps[t].pc \in Saving /\ "counting" \in Saving \ {"naming"}
    BY <1>3 DEF FindByLabel, TapAt, Saving
  <2> QED BY <1>3, <2>1, FinishStep, TapToStep DEF FindByLabel
<1>4. ASSUME CountPresets(t) PROVE PairsInv'
  <2>1. taps[t].pc \in Saving /\ "creating" \in Saving \ {"naming"}
    BY <1>4 DEF CountPresets, TapAt, Saving
  <2> QED BY <1>4, <2>1, FinishStep, TapToStep DEF CountPresets
<1>5. ASSUME CreatePreset(t) PROVE PairsInv' BY <1>5, CreatePresetStep
<1>6. ASSUME CreateFavorite(t) PROVE PairsInv' BY <1>6, CreateFavoriteStep
<1>7. ASSUME FindFavorite(t) PROVE PairsInv' BY <1>7, FinishStep DEF FindFavorite
<1>8. ASSUME QueryFails(t) PROVE PairsInv' BY <1>8, FinishStep DEF QueryFails
<1> QED BY <1>1, <1>2, <1>3, <1>4, <1>5, <1>6, <1>7, <1>8 DEF TapStep

-----------------------------------------------------------------------------
(* Around them.                                                            *)

LEMMA QuietTaps ==
    ASSUME PairsInv, UNCHANGED <<tokenVars, taps, presets, savedRestarts>>,
           buttons' \subseteq buttons,
           \A x \in DOMAIN favorites' : x \in DOMAIN favorites /\ favorites'[x] = favorites[x]
    PROVE  PairsInv'
<1>1. ResolutionInv' /\ AnswersStay
  BY DEF PairsInv, ResolutionInv, TokensTypeOK, TableInv, SureSeeds, tokenVars, AnswersStay
<1>2. PairsTypeOK' BY DEF PairsInv, PairsTypeOK
<1>3. \A t \in Taps : taps[t].pc = "naming" => Len(taps[t].label) < 2
  BY DEF PairsInv, TapsInv, Saving
<1> QED BY <1>1, <1>2, <1>3, PairsKept

\* Nobody is at work.
LEMMA RestartPairsStep ==
    ASSUME PairsInv, RestartPairs
    PROVE  PairsInv'
<1>1. tokens' = tokens /\ misread' = misread /\ up' = FALSE BY DEF RestartPairs
<1>2. \A c \in Commands :
          /\ commands'[c] \in CommandRecords
          /\ CommandInv(commands'[c], DOMAIN tokens, SureSeeds)
          /\ commands[c].pc = "answered" => commands'[c] = commands[c]
  <2> TAKE c \in Commands
  <2>1. commands[c] \in CommandRecords /\ CommandInv(commands[c], DOMAIN tokens, SureSeeds)
    BY DEF PairsInv, ResolutionInv, TokensTypeOK
  <2>2. CASE commands[c].pc \in {"idle", "answered"}
    <3>1. commands'[c] = commands[c] BY <2>2 DEF RestartPairs
    <3> QED BY <2>1, <3>1
  <2>3. CASE commands[c].pc \notin {"idle", "answered"}
    <3>1. commands'[c] = [NoCommand EXCEPT !.pc = "failed"] BY <2>3 DEF RestartPairs
    <3> QED BY <2>3, <3>1, NoCommandFacts
  <2> QED BY <2>2, <2>3
<1>3. commands' \in [Commands -> CommandRecords] BY <1>2 DEF RestartPairs
<1>4. ResolutionInv'
  BY <1>1, <1>2, <1>3 DEF PairsInv, ResolutionInv, TokensTypeOK, TableInv, SureSeeds
<1>5. AnswersStay BY <1>2 DEF AnswersStay
<1>6. \A t \in Taps : taps'[t] \in TapRecords /\ taps'[t].pc \in {"idle", "rejected", "saved"}
  <2> TAKE t \in Taps
  <2>1. taps[t] \in TapRecords BY DEF PairsInv, PairsTypeOK
  <2>2. CASE taps[t].pc \in {"idle", "saved"} BY <2>1, <2>2 DEF RestartPairs
  <2>3. CASE taps[t].pc \notin {"idle", "saved"}
    <3>1. taps'[t] = [NoTap EXCEPT !.pc = "rejected"] BY <2>3 DEF RestartPairs
    <3>2. [NoTap EXCEPT !.pc = "rejected"] \in TapRecords
          /\ [NoTap EXCEPT !.pc = "rejected"].pc = "rejected"
      BY NoTapFacts
    <3> QED BY <3>1, <3>2
  <2> QED BY <2>2, <2>3
<1>7. PairsTypeOK'
  <2>1. taps' \in [Taps -> TapRecords] BY <1>6 DEF RestartPairs
  <2>2. savedRestarts' \in 0..MaxSavedRestarts
    BY SavedRestartsAssumption DEF RestartPairs, PairsInv, PairsTypeOK
  <2>3. buttons' = {} /\ UNCHANGED <<presets, favorites>> BY DEF RestartPairs
  <2> QED BY <2>1, <2>2, <2>3 DEF PairsInv, PairsTypeOK
<1>8. \A t \in Taps : taps'[t].pc \notin Saving \cup Favoring
  BY <1>6 DEF Saving, Favoring
<1>9. buttons' = {} /\ presets' = presets /\ favorites' = favorites BY DEF RestartPairs
<1> QED BY <1>4, <1>5, <1>7, <1>8, <1>9, PairsKept

\* A seed's row is the seed's again, and its symbol is in no other.
LEMMA SeedTokenStep ==
    ASSUME PairsInv, NEW a \in DOMAIN Seeds, SeedToken(a), UNCHANGED pairVars
    PROVE  PairsInv'
<1>1. UNCHANGED <<commands, up, misread>> /\ ~SymbolTaken(a, Seeds[a]) /\ Upsert(a, Seeds[a])
  BY DEF SeedToken
<1>2. /\ a \in DOMAIN tokens /\ DOMAIN tokens' = DOMAIN tokens
      /\ \A x \in DOMAIN tokens : tokens'[x] = IF x = a THEN Seeds[a] ELSE tokens[x]
      /\ tokens' = [x \in DOMAIN tokens |-> tokens'[x]]
  <2>1. a \in DOMAIN tokens BY DEF PairsInv, ResolutionInv, TableInv
  <2>2. DOMAIN tokens \cup {a} = DOMAIN tokens BY <2>1
  <2> QED BY <1>1, <2>1, <2>2 DEF Upsert
<1>3. SureSeeds' = SureSeeds BY <1>1 DEF SureSeeds
<1>4. TableInv'
  <2>1. \A x \in DOMAIN tokens \ {a} : tokens[x] # Seeds[a]
    BY <1>1 DEF SymbolTaken, FindBySymbol
  <2>2. \A x, y \in DOMAIN tokens' : tokens'[x] = tokens'[y] => x = y
    BY <1>2, <2>1 DEF PairsInv, ResolutionInv, TableInv
  <2>3. \A x \in SureSeeds : tokens'[x] = Seeds[x]
    BY <1>2 DEF PairsInv, ResolutionInv, TableInv, SureSeeds
  <2> QED BY <1>2, <1>3, <2>2, <2>3 DEF PairsInv, ResolutionInv, TableInv
<1>5. TokensTypeOK'
  <2>1. Seeds[a] \in Symbols BY DEF Symbols
  <2>2. \A x \in DOMAIN tokens : tokens'[x] \in Symbols
    BY <1>2, <2>1 DEF PairsInv, ResolutionInv, TokensTypeOK
  <2>3. tokens' \in [DOMAIN tokens' -> Symbols] BY <1>2, <2>2
  <2> QED BY <1>1, <1>2, <2>3 DEF PairsInv, ResolutionInv, TokensTypeOK
<1>6. ResolutionInv' BY <1>1, <1>2, <1>3, <1>4, <1>5 DEF PairsInv, ResolutionInv
<1>7. AnswersStay BY <1>1 DEF AnswersStay
<1> QED BY <1>6, <1>7, SameTaps

LEMMA ModuleInitialisedStep ==
    ASSUME PairsInv, ModuleInitialised, UNCHANGED pairVars
    PROVE  PairsInv'
<1>1. UNCHANGED <<tokens, commands, misread>> /\ up' = TRUE BY DEF ModuleInitialised
<1>2. ResolutionInv'
  BY <1>1 DEF PairsInv, ResolutionInv, TokensTypeOK, TableInv, SureSeeds
<1>3. AnswersStay BY <1>1 DEF AnswersStay
<1> QED BY <1>2, <1>3, SameTaps

-----------------------------------------------------------------------------
(* The theorems.                                                           *)

LEMMA InitInv == PairsInit => PairsInv
<1> SUFFICES ASSUME PairsInit PROVE PairsInv OBVIOUS
<1>1. tokens = Seeds /\ commands = [c \in Commands |-> NoCommand] /\ up = TRUE /\ misread = {}
  BY DEF PairsInit, TokensInit
<1>2. TokensTypeOK
  <2>1. commands \in [Commands -> CommandRecords] BY <1>1, NoCommandFacts
  <2>2. DOMAIN tokens \subseteq Addresses BY <1>1 DEF Addresses
  <2>3. tokens \in [DOMAIN tokens -> Symbols] BY <1>1, SeedsAssumption DEF Symbols
  <2> QED BY <1>1, <2>1, <2>2, <2>3 DEF TokensTypeOK
<1>3. TableInv BY <1>1, SeedsAssumption DEF TableInv, SureSeeds
<1>4. ResolutionInv BY <1>1, <1>2, <1>3, NoCommandFacts DEF ResolutionInv
<1>5. \A t \in Taps : taps[t] = NoTap BY DEF PairsInit
<1>6. NoTap.pc = "idle" BY DEF NoTap
<1>7. DOMAIN presets = {} /\ DOMAIN favorites = {} /\ buttons = {} BY DEF PairsInit
<1>8. PairsTypeOK
  <2>1. taps \in [Taps -> TapRecords] BY NoTapFacts DEF PairsInit
  <2> QED BY <1>7, <2>1, SavedRestartsAssumption DEF PairsTypeOK, PairsInit
<1>9. \A t \in Taps : taps[t].pc \notin Saving \cup Favoring
  BY <1>5, <1>6 DEF Saving, Favoring
<1>10. TapsInv BY <1>9 DEF TapsInv
<1>11. /\ ButtonIsSpent("preset", Saving, presets)
       /\ ButtonIsSpent("favorite", Favoring, favorites)
  BY <1>7, <1>9 DEF ButtonIsSpent
<1> QED BY <1>4, <1>7, <1>8, <1>10, <1>11 DEF PairsInv

LEMMA NextInv == PairsInv /\ [PairsNext]_<<tokenVars, pairVars>> => PairsInv'
<1> SUFFICES ASSUME PairsInv, [PairsNext]_<<tokenVars, pairVars>> PROVE PairsInv' OBVIOUS
<1>1. ASSUME NEW c \in Commands, ResolutionStep(c), UNCHANGED pairVars PROVE PairsInv'
  <2>1. TableGrows /\ \E k : Moves(c, k) BY <1>1, ResolutionStepMoves DEF PairsInv
  <2> QED BY <1>1, <2>1, CommandStep
<1>2. ASSUME NEW c \in Commands, Answer(c) PROVE PairsInv' BY <1>2, AnswerStep
<1>3. ASSUME NEW c \in Commands, AnswerFails(c) PROVE PairsInv' BY <1>3, AnswerFailsStep
<1>4. ASSUME NEW t \in Taps, TapStep(t) PROVE PairsInv' BY <1>4, TapStepInv
<1>5. ASSUME NEW u \in Traders, NEW f \in Taps, DeleteFavorite(u, f) PROVE PairsInv'
  BY <1>5, QuietTaps DEF DeleteFavorite
<1>6. ASSUME NEW b, ExpireButton(b) PROVE PairsInv' BY <1>6, QuietTaps DEF ExpireButton
<1>7. ASSUME RestartPairs PROVE PairsInv' BY <1>7, RestartPairsStep
<1>8. ASSUME NEW a \in DOMAIN Seeds, SeedToken(a), UNCHANGED pairVars PROVE PairsInv'
  BY <1>8, SeedTokenStep
<1>9. ASSUME ModuleInitialised, UNCHANGED pairVars PROVE PairsInv'
  BY <1>9, ModuleInitialisedStep
<1>10. ASSUME UNCHANGED <<tokenVars, pairVars>> PROVE PairsInv'
  BY <1>10, QuietTaps DEF pairVars
<1> QED
  BY <1>1, <1>2, <1>3, <1>4, <1>5, <1>6, <1>7, <1>8, <1>9, <1>10 DEF PairsNext

\* The invariant the others follow from: of the table, of every command, and of
\* every button with what came of it.
THEOREM SpecInv == PairsSpec => []PairsInv
BY InitInv, NextInv, PTL DEF PairsSpec

\* TokenAddressResolverService, TokensService: whatever tokens users bring into the
\* table, an address means its contract, and a seed is found by its symbol, alone,
\* unless the lookup of its address once rejected and CoinGecko was asked about it.
THEOREM SpecTradesWhatWasNamed == PairsSpec => []TradesWhatWasNamed
<1>1. ASSUME PairsInv PROVE TradesWhatWasNamed
  <2>1. \A a \in SureSeeds : ~SymbolTaken(a, Seeds[a])
    BY <1>1 DEF SymbolTaken, FindBySymbol, PairsInv, ResolutionInv, TableInv, SureSeeds
  <2>2. ASSUME NEW c \in Commands, NEW i \in DOMAIN commands[c].found
        PROVE  Means(commands[c].inputs[i], commands[c].found[i], SureSeeds)
    <3>1. CommandInv(commands[c], DOMAIN tokens, SureSeeds)
      BY <1>1 DEF PairsInv, ResolutionInv
    <3> QED BY <3>1 DEF CommandInv
  <2> QED BY <2>1, <2>2 DEF TradesWhatWasNamed
<1> QED BY <1>1, SpecInv, PTL

\* WalletConnectSessionStore.consumePendingAction: however often and by whomever a
\* button is pressed, at most one row comes of it.
THEOREM SpecOneRowPerButton == PairsSpec => []OneRowPerButton
<1>1. ASSUME PairsInv PROVE OneRowPerButton
  <2>1. ASSUME NEW rows \in {presets, favorites}, NEW x \in DOMAIN rows
        PROVE  /\ OfItsAnswer(rows[x])
               /\ \A y \in DOMAIN rows : rows[x].by = rows[y].by => x = y
    BY <1>1, <2>1 DEF PairsInv, ButtonIsSpent
  <2> QED BY <2>1 DEF OneRowPerButton, OfItsAnswer
<1> QED BY <1>1, SpecInv, PTL
=============================================================================
