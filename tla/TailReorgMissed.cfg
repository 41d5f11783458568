SPECIFICATION Spec

CONSTANTS
  TxId <- MCTxId
  Category <- MCCategory
  Block <- MCBlock
  Symbol <- MCSymbol
  Maker <- MCMaker
  TxIns <- MCTxIns
  TxOuts <- MCTxOuts
  BlockTxs <- MCBlockTxs
  Listing <- MCListing
  SpendMarker <- MCSpendMarker
  Out0Pkh <- MCOut0Pkh
  Covenant <- MCCovenant
  CategoryOrder <- MCCategoryOrder
  None = None
  Chains <- MCFork
  MaxHeight = 6
  Boot = 1
  RevealWindow = 3
  MaxErrors = 0
  MaxCrashes = 0

INVARIANT LiveMatchesChain

CHECK_DEADLOCK FALSE
