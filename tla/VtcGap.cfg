SPECIFICATION HistorySpec
CONSTANTS
  a = a  b = b  a1 = a1  a2 = a2  a3 = a3  b1 = b1
  Client <- MCClient
  NoClient = NoClient
  Req <- MCReq
  adapter_dir <- MCAdapter
  input_len <- MCInputLen
  max_output_len <- MCOutputLen
  lora_rank <- NoLora
  max_total_tokens = 9
  batch_max_tokens = 4
  running_max_req_size = 2
  max_req_input_len = 2
  max_req_total_len = 3
  service_def = "quadratic"
  HIGH_TIER_START = 2
  QUADRATIC_DIVISOR = 2
  max_wait_tokens = 1
INVARIANTS BoundedGap HistoryInv
