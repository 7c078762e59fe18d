\* Up to twenty-one base candles, of which three make a higher one; two datasets, a retrain
\* needs two new rows, one child left behind at a time.
SPECIFICATION ModelsSpec
CONSTANTS
    MaxBars = 21
    Ratio = 3
    RowsWanted = 20
    WarmUp = 1
    LookBack = 2
    LabelHorizon = 1
    BrainHorizon = 2
    PurgeBars = 1
    MinFitted = 5
    Share = 15
    MinPart = 1
    MaxData = 2
    MinNew = 2
    MaxLeft = 1
INVARIANTS
    HoldoutUnseen
    PairedAfterPromotion
PROPERTIES
    ServedAsTrained
    NewestIsServedHere
