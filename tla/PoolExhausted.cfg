SPECIFICATION ServedSpec
CONSTANTS
  x = x  y = y  z = z  x1 = x1  y1 = y1  y2 = y2  z1 = z1
  Client <- MCClient
  NoClient = NoClient
  Req <- MCReq
  adapter_dir <- MCAdapter
  input_len <- MCInputLen
  max_output_len <- MCOutputLen
  lora_rank <- MCRank
  max_total_tokens = 28
  batch_max_tokens = 7
  running_max_req_size = 3
  max_req_input_len = 5
  max_req_total_len = 7
  service_def = "linear"
  HIGH_TIER_START = 2
  QUADRATIC_DIVISOR = 1
  max_wait_tokens = 1
  Running = Running  Mini = Mini  Unset = Unset
  pool_size_lora = 0
  tot_size = 28
INVARIANTS PoolSuffices
