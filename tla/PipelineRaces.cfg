\* Two administrators and the pipeline create publications of one headline.
SPECIFICATION FairPipelineSpec
CONSTANTS
    Makers = {a1, a2, runner}
    Runner = runner
    Nobody = nobody
    Ids = {1, 2, 3}
    Titles = {t}
    Products = {p}
    NoProduct = none
    MaxSuffix = 3
    LineageKeyed = TRUE
INVARIANTS
    LineageInv
PROPERTIES
    CreationsEnd
CHECK_DEADLOCK FALSE
