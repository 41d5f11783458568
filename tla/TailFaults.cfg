SPECIFICATION Spec

CONSTANTS
  TxId <- MCTxId
  Category <- MCCategory
  Block <- MCBlock
  Symbol <- MCSymbol
  Maker <- MCMaker
  TxIns <- MCTxIns
  TxOuts <- MCTxOuts
  BlockTxs <- MCBlockTxs
  Listing <- MCListing
  SpendMarker <- MCSpendMarker
  Out0Pkh <- MCOut0Pkh
  Covenant <- MCCovenant
  CategoryOrder <- MCCategoryOrder
  None = None
  Chains <- MCLinear
  MaxHeight = 6
  Boot = 1
  RevealWindow = 3
  MaxErrors = 2
  MaxCrashes = 2

INVARIANT TypeOK
INVARIANT LiveMatchesChain
INVARIANT StateFresh
INVARIANT LiveComplete
INVARIANT TokensMatchChain
INVARIANT OffersMatchChain
INVARIANT Crc20MatchesChain
 
PROPERTY ClosedForGood

CHECK_DEADLOCK FALSE
