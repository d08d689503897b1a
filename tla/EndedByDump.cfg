SPECIFICATION MetricsSpec
CONSTANTS
  a = a  b = b  a1 = a1  a2 = a2  b1 = b1
  Client <- MCClient
  NoClient = NoClient
  Req <- OneEach
  adapter_dir <- MCAdapter
  input_len <- MCInputLen
  max_output_len <- MCOutputLen
  lora_rank <- NoLora
  max_total_tokens = 12
  batch_max_tokens = 5
  running_max_req_size = 2
  max_req_input_len = 2
  max_req_total_len = 5
  service_def = "linear"
  HIGH_TIER_START = 2
  QUADRATIC_DIVISOR = 1
  max_wait_tokens = 1
  save_every = 2
PROPERTIES ServedUnlessKilled
CHECK_DEADLOCK FALSE
