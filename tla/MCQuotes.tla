------------------------------- MODULE MCQuotes -------------------------------
EXTENDS Quotes, TLC

Sym == Permutations(Handlers) \cup Permutations(Quotes) \cup Permutations(Accounts)
          \cup Permutations(Lines)
===============================================================================
