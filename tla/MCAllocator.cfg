\* A heap of four blocks and a rest, which the heatmap covers, and one of six
\* blocks and a rest, which like the kernel's own is larger than its heatmap.
CONSTANTS
    HeapSizes = {300, 424}
    MapBlocks = 5
    Sizes = {1, 64, 65, 150}
    Aligns = {8, 128, 256}
SPECIFICATION Spec
CHECK_DEADLOCK FALSE
INVARIANTS TypeOK NoOverlap HeatmapExact NullMeansFull GrantsAligned
