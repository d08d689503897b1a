SPECIFICATION FairSpec
CONSTANTS
  a = a  b = b  a1 = a1  a2 = a2  a3 = a3  b1 = b1
  Client <- MCClient
  NoClient = NoClient
  Req <- MCReq
  adapter_dir <- MCAdapter
  input_len <- MCInputLen
  max_output_len <- MCOutputLen
  lora_rank <- MCRank
  max_total_tokens = 12
  batch_max_tokens = 6
  running_max_req_size = 2
  max_req_input_len = 5
  max_req_total_len = 6
  base_prefill <- MCBase
  adapter_prefill <- MCWithAdapter
  seq_len_step = 2
  Inf = Inf
  batch_num_adapters = 1
  max_other_waited_reqs = 1
  pets_threshold = 2
  max_wait_tokens = 1
  max_aborts = 1
INVARIANTS TypeOK NoRequestLost BatchFits OwnTimeStamp PetsSplitsBest
PROPERTIES AbortedStops EveryRequestServed
