SPECIFICATION Spec
CONSTANTS
  ada = ada  adb = adb  adc = adc  r1 = r1  r2 = r2  r3 = r3  r4 = r4
  Client <- MCClient
  NoClient = NoClient
  Req <- MCReq
  adapter_dir <- MCAdapter
  input_len <- MCInputLen
  max_output_len <- MCOutputLen
  lora_rank <- NoLora
  max_total_tokens = 20
  batch_max_tokens = 10
  running_max_req_size = 4
  max_req_input_len = 4
  max_req_total_len = 6
  tot_size = 7
  Sizes <- MCSizes
  BlockSizes <- MCBlockSizes
  Adapter <- MCAdapters
  adapter_r <- MCAdapterR
  pool_size = 16
  COPY_BLOCK = 4
  RowSizes = {4}
  MaxRows = 1
  HEADS = 2
  BLOCK = 2
  BLOCK_ATT1 = 4
  BLOCK_REDUCEV = 2
  BLOCK_SEQ = 3
  BLOCK_HEAD = 1
  TMP_PAD = 2
  PromptLens <- MCPromptLens
  PrefillCells <- MCPrefillCells
  DecodeCells <- MCDecodeCells
  rank <- NarrowRank
  scaling <- MCScaling
  loc <- NarrowLoc
  EMBED = 4
  VEC = 2
  TILE_OUT = 2
  TILE_M = 2
  SHRINK_N = 2
  EXPAND_N = 2
  LAYERS = 2
  LONG = 2
  WIDE = 4
  LoraBatches <- NarrowBatches
  AdapterOrders <- MCAdapterOrders
INVARIANT LoraIsOwn
CHECK_DEADLOCK FALSE
