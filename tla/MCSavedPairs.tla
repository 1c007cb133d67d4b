---------------------------- MODULE MCSavedPairs ----------------------------
(***************************************************************************)
(* A small chain for SavedPairs and TokenResolution: two seeds, a token    *)
(* CoinGecko knows, and how users may name them.                           *)
(***************************************************************************)
EXTENDS SavedPairs

\* WETH is an address without letters, which the catalogue spells as the seed does.
SeedRows == [a \in {<<"usdc", "checksum">>, <<"weth", "lower">>} |->
                IF a[1] = "usdc" THEN "USDC" ELSE "WETH"]

\* The catalogue may have another symbol for a seed, or that of a seed for another
\* token.
ListedSymbols == [x \in {"usdc", "weth", "pepe"} |->
                    CASE x = "usdc" -> {"USDC", "USDC.E"}
                      [] x = "weth" -> {"WETH", "ETH"}
                      [] x = "pepe" -> {"PEPE", "WETH"}]

BySymbol(s) == [by |-> "symbol", name |-> s, address |-> <<>>]
ByAddress(c, spelling) == [by |-> "address", name |-> "", address |-> <<c, spelling>>]

SomeNamedPairs ==
    {<<BySymbol("USDC"), BySymbol("WETH")>>,
     <<BySymbol("WETH"), BySymbol("PEPE")>>,
     <<ByAddress("pepe", "checksum"), BySymbol("USDC")>>,
     <<ByAddress("usdc", "lower"), ByAddress("weth", "lower")>>}
=============================================================================
