--------------------------- MODULE MCPriceIndexer ---------------------------
\* Two currencies, one of which CoinGecko starts to quote on a later date.
EXTENDS PriceIndexer, TLC

CONSTANTS usd, new

MCCurrencies == {usd, new}
MCQuotedFrom == usd :> 0 @@ new :> 2
BothTokens == {Tokens}
OnlyEth == {{"ethereum"}}
AnySeed == BothTokens \cup OnlyEth
=============================================================================
