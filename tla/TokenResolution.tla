-------------------------- MODULE TokenResolution --------------------------
(***************************************************************************)
(* The tokens table of one chain (src/tokens) and how the two tokens of a  *)
(* command are found in it (src/token-resolution, src/price): by symbol,   *)
(* or by address, which CoinGecko is asked about when no row has it as it  *)
(* was typed, or when that lookup rejects.  Both unique keys of the table  *)
(* begin with the chain, so that chains share nothing.  An address is a    *)
(* pair of the contract and of how its letters are spelled: the seeds have *)
(* checksums, CoinGecko answers in small letters, a user types either, and *)
(* the table tells them apart.                                             *)
(* A definition A_Mutation is a plausible mistake in A; no specification   *)
(* uses it, it only shows that a property can fail.                        *)
(***************************************************************************)
EXTENDS Naturals, FiniteSets, Sequences

CONSTANTS
    Traders,        \* users who give commands and press buttons
    Commands,       \* /price and /swap commands
    NamedPairs,     \* what they name: two inputs, each [by |-> "symbol", name]
                    \* or [by |-> "address", address]
    Seeds,          \* the seed of the chain: address -> symbol
    Listed          \* symbols CoinGecko may report, by contract

\* What is looked up by address, how CoinGecko spells it, and what is made of its
\* answer, which may lack contract_address.
AddressInputs == {x \in {pair[i] : pair \in NamedPairs, i \in {1, 2}} : x.by = "address"}
CatalogueAddress(input) == <<input.address[1], "lower">>
ReportedAddresses(input) == {CatalogueAddress(input), input.address}

\* The seed of a chain has every symbol once.
ASSUME SeedsAssumption ==
    /\ Seeds = [a \in DOMAIN Seeds |-> Seeds[a]]
    /\ \A a, b \in DOMAIN Seeds : Seeds[a] = Seeds[b] => a = b

\* A seed that is spelled as CoinGecko would has no letters, or is an address of
\* Solana: it has no other spelling.
ASSUME SpellingAssumption ==
    \A x \in AddressInputs : CatalogueAddress(x) \in DOMAIN Seeds => x.address = CatalogueAddress(x)

VARIABLES
    tokens,         \* rows of the chain: address -> symbol
    commands,
    up,             \* whether the process has started
    misread         \* seeds that were asked of CoinGecko although a row has them; a
                    \* history variable

tokenVars == <<tokens, commands, up, misread>>

NoCommand == [pc |-> "idle", user |-> "none", explicitChain |-> FALSE, inputs |-> <<>>,
              found |-> <<>>, report |-> <<>>]

\* onModuleInit ran before the first command.
TokensInit ==
    /\ tokens = Seeds
    /\ commands = [c \in Commands |-> NoCommand]
    /\ up = TRUE
    /\ misread = {}

CommandAt(c, pc) == commands[c].pc = pc
CommandTo(c, pc) == commands' = [commands EXCEPT ![c].pc = pc]

\* A command that has failed is forgotten.
FailCommand(c) == commands' = [commands EXCEPT ![c] = [NoCommand EXCEPT !.pc = "failed"]]

\* The input that is looked up: the sold token first.
Input(c) == commands[c].inputs[Len(commands[c].found) + 1]

FindBySymbol(symbol) == {a \in DOMAIN tokens : tokens[a] = symbol}

\* tokens_chain_symbol_idx
SymbolTaken(address, symbol) == FindBySymbol(symbol) \ {address} # {}

Upsert(address, symbol) ==
    tokens' = [a \in DOMAIN tokens \cup {address} |->
                  IF a = address THEN symbol ELSE tokens[a]]

-----------------------------------------------------------------------------
(* prepare, one of its two tokens at a time.                               *)

HandleCommand(c, u, pair, explicitChain) ==
    /\ up
    /\ CommandAt(c, "idle")
    /\ commands' = [commands EXCEPT ![c] = [NoCommand EXCEPT
            !.pc = "resolving", !.user = u, !.inputs = pair,
            !.explicitChain = explicitChain]]
    /\ UNCHANGED <<tokens, up, misread>>

Resolved(c, address) ==
    LET found == Append(commands[c].found, address)
    IN commands' = [commands EXCEPT
            ![c].pc = IF Len(found) = 2 THEN "prepared" ELSE "resolving",
            ![c].found = found, ![c].report = <<>>,
            ![c].explicitChain = @ /\ Len(found) = 1]

ResolveSymbol(c) ==
    /\ CommandAt(c, "resolving")
    /\ Input(c).by = "symbol"
    /\ LET rows == FindBySymbol(Input(c).name)
       IN IF rows = {} THEN FailCommand(c)
          ELSE \E address \in rows : Resolved(c, address)
    /\ UNCHANGED <<tokens, up, misread>>

\* A lookup that rejects counts as one that finds nothing: also an address that is
\* in the table, a seed's too, may be asked of CoinGecko.
ResolveAddress(c) ==
    /\ CommandAt(c, "resolving")
    /\ Input(c).by = "address"
    /\ LET address == Input(c).address
       IN \/ /\ ~commands[c].explicitChain
             /\ FailCommand(c)
             /\ UNCHANGED misread
          \/ /\ commands[c].explicitChain /\ address \in DOMAIN tokens
             /\ Resolved(c, address)
             /\ UNCHANGED misread
          \/ /\ commands[c].explicitChain
             /\ CommandTo(c, "asking")
             /\ misread' = misread \cup ({address} \cap DOMAIN Seeds)
    /\ UNCHANGED <<tokens, up>>

\* lookupInCoinGecko
CoinGeckoAnswers(c, address, symbol) ==
    /\ CommandAt(c, "asking")
    /\ commands' = [commands EXCEPT ![c].pc = "saving", ![c].report = <<address, symbol>>]
    /\ UNCHANGED <<tokens, up, misread>>

\* CoinGecko does not find it, is not reachable, or names no decimals, symbol, name
\* or valid address; or a query rejects other than that of an address.
ResolutionFails(c) ==
    /\ \/ CommandAt(c, "resolving") /\ Input(c).by = "symbol"
       \/ commands[c].pc \in {"asking", "saving", "saved"}
    /\ FailCommand(c)
    /\ UNCHANGED <<tokens, up, misread>>

UpsertToken_BySymbol(c) ==
    /\ CommandAt(c, "saving")
    /\ LET address == commands[c].report[1]
           symbol == commands[c].report[2]
           kept == DOMAIN tokens \ FindBySymbol(symbol)
       IN tokens' = [a \in kept \cup {address} |->
                        IF a = address THEN symbol ELSE tokens[a]]
    /\ CommandTo(c, "saved")
    /\ UNCHANGED <<up, misread>>

\* Insert, or update the row of that address; a symbol that another address has
\* rejects either.
UpsertToken(c) ==
    /\ CommandAt(c, "saving")
    /\ LET address == commands[c].report[1]
           symbol == commands[c].report[2]
       IN IF SymbolTaken(address, symbol)
          THEN FailCommand(c) /\ UNCHANGED tokens
          ELSE Upsert(address, symbol) /\ CommandTo(c, "saved")
    /\ UNCHANGED <<up, misread>>

\* The row that was just written is read again.
ReadSavedToken(c) ==
    /\ CommandAt(c, "saved")
    /\ IF commands[c].report[1] \in DOMAIN tokens
       THEN Resolved(c, commands[c].report[1])
       ELSE FailCommand(c)
    /\ UNCHANGED <<tokens, up, misread>>

ResolutionStep(c) ==
    \/ \E u \in Traders, pair \in NamedPairs, explicitChain \in BOOLEAN :
          HandleCommand(c, u, pair, explicitChain)
    \/ ResolveSymbol(c) \/ ResolveAddress(c)
    \/ /\ CommandAt(c, "asking")
       /\ \E address \in ReportedAddresses(Input(c)), symbol \in Listed[Input(c).address[1]] :
             CoinGeckoAnswers(c, address, symbol)
    \/ ResolutionFails(c) \/ UpsertToken(c) \/ ReadSavedToken(c)

-----------------------------------------------------------------------------
(* onModuleInit, when the process starts again: the seeds are written all  *)
(* at once, in any order, and the start fails when the unique symbol       *)
(* refuses one.  A process that did not start is started again: the writes *)
(* of several starts are those of one.                                     *)

SeedToken(a) ==
    /\ ~up
    /\ ~SymbolTaken(a, Seeds[a])
    /\ Upsert(a, Seeds[a])
    /\ UNCHANGED <<commands, up, misread>>

ModuleInitialised ==
    /\ ~up
    /\ \A a \in DOMAIN Seeds : a \in DOMAIN tokens /\ tokens[a] = Seeds[a]
    /\ up' = TRUE
    /\ UNCHANGED <<tokens, commands, misread>>

-----------------------------------------------------------------------------
(* Properties.                                                             *)

SureSeeds == DOMAIN Seeds \ misread

\* An address means its contract, however it is spelled; the symbol of a seed means
\* the seed's contract.
Means(input, found, seeds) ==
    /\ input.by = "address" => found[1] = input.address[1]
    /\ input.by = "symbol" => \A a \in seeds : input.name = Seeds[a] => found = a

\* A command trades the contracts it names, whatever tokens users brought into the
\* table since, and the process can write its seeds again when it restarts.  Both
\* are said of the seeds the catalogue was never asked about because the lookup of
\* their row rejected (TokenAddressResolverService, TokensService).
TradesWhatWasNamed ==
    /\ \A a \in SureSeeds : ~SymbolTaken(a, Seeds[a])
    /\ \A c \in Commands : \A i \in DOMAIN commands[c].found :
          Means(commands[c].inputs[i], commands[c].found[i], SureSeeds)

-----------------------------------------------------------------------------
(* The inductive invariant of the table and of the commands.               *)

Addresses ==
    DOMAIN Seeds \cup {x.address : x \in AddressInputs}
                 \cup {CatalogueAddress(x) : x \in AddressInputs}
Symbols ==
    {Seeds[a] : a \in DOMAIN Seeds} \cup UNION {Listed[x.address[1]] : x \in AddressInputs}

CommandPc ==
    {"idle", "resolving", "asking", "saving", "saved", "prepared", "answered", "failed"}

CommandRecords ==
    [pc : CommandPc, user : Traders \cup {"none"}, explicitChain : BOOLEAN,
     inputs : NamedPairs \cup {<<>>}, found : Seq(Addresses),
     report : {<<>>} \cup (Addresses \X Symbols)]

TokensTypeOK ==
    /\ DOMAIN tokens \subseteq Addresses
    /\ tokens \in [DOMAIN tokens -> Symbols]
    /\ commands \in [Commands -> CommandRecords]
    /\ up \in BOOLEAN
    /\ misread \subseteq DOMAIN Seeds

\* The seeds are never out of the table, nor under another symbol unless they were
\* misread, and a symbol is in one row.
TableInv ==
    /\ DOMAIN Seeds \subseteq DOMAIN tokens
    /\ \A a \in SureSeeds : tokens[a] = Seeds[a]
    /\ \A a, b \in DOMAIN tokens : tokens[a] = tokens[b] => a = b

\* What is asked of CoinGecko is none of these seeds, so that its answer touches none.
CommandInv(command, rows, seeds) ==
    LET next == command.inputs[Len(command.found) + 1]
    IN /\ command.pc \in {"idle", "failed"} => command.found = <<>>
       /\ command.pc \notin {"idle", "failed"} => command.user \in Traders /\ command.inputs \in NamedPairs
       /\ command.pc \in {"resolving", "asking", "saving", "saved"} => Len(command.found) < 2
       /\ command.pc \in {"prepared", "answered"} => Len(command.found) = 2
       /\ \A i \in DOMAIN command.found :
             command.found[i] \in rows /\ Means(command.inputs[i], command.found[i], seeds)
       /\ command.pc \in {"asking", "saving", "saved"} =>
             next \in AddressInputs /\ ReportedAddresses(next) \cap seeds = {}
       /\ command.pc \in {"saving", "saved"} =>
             command.report \in Addresses \X Symbols /\ command.report[1] \in ReportedAddresses(next)

ResolutionInv ==
    /\ TokensTypeOK /\ TableInv
    /\ \A c \in Commands : CommandInv(commands[c], DOMAIN tokens, SureSeeds)
=============================================================================
